---- MODULE Spec2Model ----
(***************************************************************************)
(* Timeline consolidation of orozcoh/descriptor: the timestamp codec, the  *)
(* similarity predicate and the anchor-based run grouper of des-group.py,  *)
(* the scene segmenter of scene-extractor.py, the merge with the scene     *)
(* data and the folder summaries of des-group.py's main, the pipeline of   *)
(* descriptor.py and the cleanup of clear-files.py.                        *)
(*                                                                         *)
(* A Python str is a sequence of one-character strings; Ord gives the code *)
(* point that Python's string comparison uses.  A float threshold is held  *)
(* in hundredths (80 is 0.8); a float of seconds is held in ticks of a     *)
(* ten-thousandth of a second (12.5 s is 125000).                          *)
(***************************************************************************)
EXTENDS Integers, Sequences, FiniteSets, TLC

VARIABLES
    \* collapse_noisy_json
    json_data,      \* the caption dict, as its (key, text) pairs in insertion order
    threshold,      \* similarity threshold, in hundredths
    pc,             \* "start", "loop", "done"
    sorted_times,
    i,
    start_time,
    anchor_desc,
    last_time,
    timeline,
    \* convert_timestamp_format
    timestamp,      \* the argument
    converted,      \* <<the returned string>>, or <<>> before the call
    \* are_similar
    sim_a,
    sim_b,
    sim_threshold,
    sim_result,     \* <<the returned bool>>, or <<>> before the call
    \* two timestamps given as fields, and their canonical strings
    writer,         \* who wrote the fields out: "plain" (H:M:S) or "describeAI"
    fields1,
    fields2,
    canon1,         \* <<the canonical string>>, or <<>> before the call
    canon2,
    \* create_scene_segments
    scene_changes,
    video_duration,
    scenes,         \* <<the returned list>>, or <<>> before the call
    \* extract_scenes
    extracted,      \* <<the returned bool>>, or <<>> before the call
    scene_json,     \* <<what <video>.scene.json holds>>, or <<>> with no such file
    \* des-group.py main
    fs,             \* the files under the input directory: path -> content
    args,           \* the parsed command line
    main_pc,        \* "start", "find", "loop", "summary", "local", "done"
    description_files,  \* sorted(description_files)
    file_i,         \* how many of them the loop has been through
    processed_count,
    failed_count,
    grouped_descriptions,
    exit_code,      \* <<the status the process ended with>>, or <<>> while it runs
    calls,          \* the calls of process_description_file made by this run
    runs,           \* how many times the program has been started
    last_run,       \* <<the command line and the tree of the run before>>, or <<>>
    \* descriptor.py main
    pipeline_directory,  \* what the path given is: "dir", "file" or "missing"
    video_folders,  \* how many folders hold a video
    pipeline_pc,    \* "start", the step at hand, or "done"
    running,        \* the step at hand has been started and has not ended
    model_loaded,
    folder_i,       \* how many of the video folders have been through step 3
    descriptions_success,
    pipeline_exit,  \* <<the status the process ended with>>, or <<>> while it runs
    log,            \* the starts and ends of the steps, in the order they happened
    \* clear-files.py main
    clear_tree,     \* the files under the working directory, as Paths
    target,         \* args.target: <<>> for None, else <<the argument>>
    function,       \* <<>> for None, else <<the function name>>
    root_path,
    clear_pc,       \* "start", "confirm", "purge", "frames", "description",
                    \* "descriptions", "scenes", "done"
    response,       \* <<what the user typed at the prompt>>, or <<>>
    clear_exit      \* <<the status the process ended with>>, or <<>> while it runs

groupVars == <<json_data, threshold, pc, sorted_times, i, start_time, anchor_desc,
               last_time, timeline>>
codecVars == <<timestamp, converted>>
simVars   == <<sim_a, sim_b, sim_threshold, sim_result>>
orderVars == <<writer, fields1, fields2, canon1, canon2>>
sceneVars == <<scene_changes, video_duration, scenes, extracted, scene_json>>
mainVars  == <<fs, args, main_pc, description_files, file_i, processed_count,
               failed_count, grouped_descriptions, exit_code, calls, runs, last_run>>
pipeVars  == <<pipeline_directory, video_folders, pipeline_pc, running, model_loaded, folder_i,
               descriptions_success, pipeline_exit, log>>
clearVars == <<clear_tree, target, function, root_path, clear_pc, response, clear_exit>>
vars      == <<groupVars, codecVars, simVars, orderVars, sceneVars, mainVars, pipeVars,
               clearVars>>

NoValue == "none"

(***************************************************************************)
(* Bounds                                                                  *)
(***************************************************************************)
MaxSamples == 3         \* entries of a caption dict
MaxTimestampLen == 5    \* characters of an arbitrary timestamp argument
MaxTextLen == 3         \* characters of a caption given to are_similar
MaxHoursDigits == 3     \* digits of an hours field
MaxChanges == 2         \* detected scene change points

(***************************************************************************)
(* Python str                                                              *)
(***************************************************************************)
Ord(c) ==
    CASE c = "+" -> 43 [] c = "-" -> 45 [] c = "." -> 46
      [] c = "0" -> 48 [] c = "1" -> 49 [] c = "2" -> 50 [] c = "3" -> 51
      [] c = "4" -> 52 [] c = "5" -> 53 [] c = "6" -> 54 [] c = "7" -> 55
      [] c = "8" -> 56 [] c = "9" -> 57 [] c = ":" -> 58
      [] c = "[" -> 91 [] c = "]" -> 93
      [] c = "a" -> 97 [] c = "b" -> 98 [] c = "c" -> 99 [] c = "d" -> 100
      [] c = "e" -> 101 [] c = "i" -> 105 [] c = "j" -> 106 [] c = "n" -> 110
      [] c = "o" -> 111 [] c = "p" -> 112 [] c = "r" -> 114 [] c = "s" -> 115
      [] c = "t" -> 116 [] c = "v" -> 118
      [] c = "U+D800" -> 55296     \* a lone surrogate, written by its code point

\* a < b on str: the first differing character decides, a proper prefix is smaller
RECURSIVE StrLess(_, _)
StrLess(a, b) ==
    IF b = <<>> THEN FALSE
    ELSE IF a = <<>> THEN TRUE
    ELSE IF a[1] # b[1] THEN Ord(a[1]) < Ord(b[1])
    ELSE StrLess(Tail(a), Tail(b))

StrLeq(a, b) == a = b \/ StrLess(a, b)

\* c in s
Contains(s, c) == \E k \in 1..Len(s) : s[k] = c

\* s.lstrip(chars), s.rstrip(chars), s.strip(chars)
RECURSIVE lstrip(_, _)
lstrip(s, chars) ==
    IF s # <<>> /\ s[1] \in chars THEN lstrip(Tail(s), chars) ELSE s

RECURSIVE rstrip(_, _)
rstrip(s, chars) ==
    IF s # <<>> /\ s[Len(s)] \in chars
    THEN rstrip(SubSeq(s, 1, Len(s) - 1), chars)
    ELSE s

strip(s, chars) == rstrip(lstrip(s, chars), chars)

\* s.split(sep) for a one-character sep: always at least one field
RECURSIVE split(_, _)
split(s, sep) ==
    IF ~Contains(s, sep) THEN <<s>>
    ELSE LET k == CHOOSE k \in 1..Len(s) :
                      s[k] = sep /\ \A m \in 1..(k - 1) : s[m] # sep
         IN  <<SubSeq(s, 1, k - 1)>> \o split(SubSeq(s, k + 1, Len(s)), sep)

Zeros(n) == [k \in 1..n |-> "0"]

\* s.zfill(width): zeros go after a leading sign
zfill(s, width) ==
    IF Len(s) >= width THEN s
    ELSE IF s # <<>> /\ s[1] \in {"+", "-"}
         THEN <<s[1]>> \o Zeros(width - Len(s)) \o Tail(s)
         ELSE Zeros(width - Len(s)) \o s

\* str(n) and int(s) for n >= 0 and s made of digits
Digit == <<"0", "1", "2", "3", "4", "5", "6", "7", "8", "9">>

RECURSIVE str(_)
str(n) == IF n < 10 THEN <<Digit[n + 1]>> ELSE str(n \div 10) \o <<Digit[(n % 10) + 1]>>

RECURSIVE int(_)
int(s) ==
    IF s = <<>> THEN 0
    ELSE 10 * int(SubSeq(s, 1, Len(s) - 1)) + (Ord(s[Len(s)]) - Ord("0"))

\* f"{n:0<width>d}" for n >= 0
format_d(n, width) == zfill(str(n), width)

(***************************************************************************)
(* convert_timestamp_format                                                *)
(***************************************************************************)
\* as convert_timestamp_format, but the brackets are not stripped
convert_timestamp_format_keep_brackets(ts) ==
    IF Contains(ts, ".") /\ Contains(ts, ":") THEN ts
    ELSE LET parts == split(ts, ":")
         IN  IF Len(parts) = 3
             THEN zfill(parts[1], 2) \o <<":">> \o zfill(parts[2], 2) \o <<":">>
                      \o zfill(parts[3], 2) \o <<".", "0", "0", "0">>
             ELSE ts

\* as convert_timestamp_format, but the hours field is not padded
convert_timestamp_format_hours_unpadded(ts) ==
    IF Contains(ts, ".") /\ Contains(ts, ":") THEN ts
    ELSE LET clean_timestamp == strip(ts, {"[", "]"})
             parts == split(clean_timestamp, ":")
         IN  IF Len(parts) = 3
             THEN parts[1] \o <<":">> \o zfill(parts[2], 2) \o <<":">>
                      \o zfill(parts[3], 2) \o <<".", "0", "0", "0">>
             ELSE ts

convert_timestamp_format(ts) ==
    IF Contains(ts, ".") /\ Contains(ts, ":") THEN ts
    ELSE LET clean_timestamp == strip(ts, {"[", "]"})
             parts == split(clean_timestamp, ":")
         IN  IF Len(parts) = 3
             THEN zfill(parts[1], 2) \o <<":">> \o zfill(parts[2], 2) \o <<":">>
                      \o zfill(parts[3], 2) \o <<".", "0", "0", "0">>
             ELSE ts

(***************************************************************************)
(* difflib.SequenceMatcher(None, a, b).ratio(), for strings shorter than   *)
(* the 200 characters at which difflib's autojunk heuristic starts.        *)
(* Ranges are difflib's: 0-based and half-open, a[alo:ahi] and b[blo:bhi]. *)
(***************************************************************************)
\* length of the common run of a[x:ahi] and b[y:bhi]
RECURSIVE CommonRun(_, _, _, _, _, _)
CommonRun(a, b, x, ahi, y, bhi) ==
    IF x < ahi /\ y < bhi /\ a[x + 1] = b[y + 1]
    THEN 1 + CommonRun(a, b, x + 1, ahi, y + 1, bhi)
    ELSE 0

\* <<besti, bestj, bestsize>>: the longest matching block; of those the one
\* that starts earliest in a, and of those the one that starts earliest in b
find_longest_match(a, b, alo, ahi, blo, bhi) ==
    LET starts == (alo..(ahi - 1)) \X (blo..(bhi - 1))
        size(p) == CommonRun(a, b, p[1], ahi, p[2], bhi)
        longest == {p \in starts : size(p) > 0 /\ \A q \in starts : size(q) <= size(p)}
    IN  IF longest = {} THEN <<alo, blo, 0>>
        ELSE LET besti == CHOOSE x \in {p[1] : p \in longest} :
                              \A p \in longest : x <= p[1]
                 bestj == CHOOSE y \in {p[2] : p \in {q \in longest : q[1] = besti}} :
                              \A p \in {q \in longest : q[1] = besti} : y <= p[2]
             IN  <<besti, bestj, size(<<besti, bestj>>)>>

\* sum of the sizes of get_matching_blocks(): the longest block, then the
\* pieces to its left and to its right
RECURSIVE matches(_, _, _, _, _, _)
matches(a, b, alo, ahi, blo, bhi) ==
    LET m == find_longest_match(a, b, alo, ahi, blo, bhi)
        x == m[1]
        y == m[2]
        k == m[3]
    IN  IF k = 0 THEN 0
        ELSE k
             + (IF alo < x /\ blo < y THEN matches(a, b, alo, x, blo, y) ELSE 0)
             + (IF x + k < ahi /\ y + k < bhi
                THEN matches(a, b, x + k, ahi, y + k, bhi) ELSE 0)

\* ratio() as the fraction <<numerator, denominator>>: 2.0 * matches / length
\* when length is not 0, else 1.0
ratio(a, b) ==
    LET length == Len(a) + Len(b)
    IN  IF length # 0
        THEN <<2 * matches(a, b, 0, Len(a), 0, Len(b)), length>>
        ELSE <<1, 1>>

(***************************************************************************)
(* are_similar: ratio() > threshold, the threshold in hundredths           *)
(***************************************************************************)
\* as are_similar, but a ratio equal to the threshold counts as similar
are_similar_inclusive(a, b, t) ==
    LET r == ratio(a, b) IN r[1] * 100 >= t * r[2]

are_similar(a, b, t) ==
    LET r == ratio(a, b) IN r[1] * 100 > t * r[2]

(***************************************************************************)
(* collapse_noisy_json                                                     *)
(***************************************************************************)
\* list(json_data.keys()), json_data[key]
keys(data) == [k \in 1..Len(data) |-> data[k][1]]

get(data, key) == data[CHOOSE k \in 1..Len(data) : data[k][1] = key][2]

\* sorted() of a list of str: insertion into the sorted prefix
RECURSIVE insort(_, _)
insort(s, x) ==
    IF s = <<>> THEN <<x>>
    ELSE IF StrLess(x, s[Len(s)])
         THEN Append(insort(SubSeq(s, 1, Len(s) - 1), x), s[Len(s)])
         ELSE Append(s, x)

\* as sorted, but the keys stay in insertion order
sorted_insertion_order(s) == s

RECURSIVE sorted(_)
sorted(s) ==
    IF s = <<>> THEN <<>>
    ELSE insort(sorted(SubSeq(s, 1, Len(s) - 1)), s[Len(s)])

\* the dict appended to timeline when a block is closed
time_block(start, last, anchor) ==
    [start_time  |-> convert_timestamp_format(start),
     end_time    |-> convert_timestamp_format(last),
     description |-> anchor]

\* as first_block, but the anchor text is taken from the last sample
first_block_anchor_of_last(times, data) ==
    [start_time  |-> times[1],
     anchor_desc |-> get(data, times[Len(times)]),
     last_time   |-> times[1],
     timeline    |-> <<>>]

\* the locals before the loop
first_block(times, data) ==
    [start_time  |-> times[1],
     anchor_desc |-> get(data, times[1]),
     last_time   |-> times[1],
     timeline    |-> <<>>]

\* as loop_body, but the anchor follows the run: each sample is compared with
\* the previous one
loop_body_sliding(st, current_time, current_desc, t) ==
    IF are_similar(st.anchor_desc, current_desc, t)
    THEN [st EXCEPT !.last_time = current_time, !.anchor_desc = current_desc]
    ELSE [start_time  |-> current_time,
          anchor_desc |-> current_desc,
          last_time   |-> current_time,
          timeline    |-> Append(st.timeline,
                                 time_block(st.start_time, st.last_time, st.anchor_desc))]

\* as loop_body, but a similar sample does not extend the block
loop_body_no_extend(st, current_time, current_desc, t) ==
    IF are_similar(st.anchor_desc, current_desc, t)
    THEN st
    ELSE [start_time  |-> current_time,
          anchor_desc |-> current_desc,
          last_time   |-> current_time,
          timeline    |-> Append(st.timeline,
                                 time_block(st.start_time, st.last_time, st.anchor_desc))]

\* as loop_body, but a new block keeps the anchor of the block before it
loop_body_stale_anchor(st, current_time, current_desc, t) ==
    IF are_similar(st.anchor_desc, current_desc, t)
    THEN [st EXCEPT !.last_time = current_time]
    ELSE [start_time  |-> current_time,
          anchor_desc |-> st.anchor_desc,
          last_time   |-> current_time,
          timeline    |-> Append(st.timeline,
                                 time_block(st.start_time, st.last_time, st.anchor_desc))]

\* one pass of the for loop over the locals st
loop_body(st, current_time, current_desc, t) ==
    IF are_similar(st.anchor_desc, current_desc, t)
    THEN [st EXCEPT !.last_time = current_time]
    ELSE [start_time  |-> current_time,
          anchor_desc |-> current_desc,
          last_time   |-> current_time,
          timeline    |-> Append(st.timeline,
                                 time_block(st.start_time, st.last_time, st.anchor_desc))]

\* as final_timeline, but the block still open after the loop is not emitted
final_timeline_dropped(st) == st.timeline

\* "Add the final time block"
final_timeline(st) ==
    Append(st.timeline, time_block(st.start_time, st.last_time, st.anchor_desc))

RECURSIVE run_loop(_, _, _, _, _)
run_loop(st, times, data, t, n) ==
    IF n < Len(times)
    THEN run_loop(loop_body(st, times[n + 1], get(data, times[n + 1]), t),
                  times, data, t, n + 1)
    ELSE st

\* the whole function
collapse_noisy_json(data, t) ==
    LET times == sorted(keys(data))
    IN  IF times = <<>> THEN <<>>
        ELSE final_timeline(run_loop(first_block(times, data), times, data, t, 1))

locals == [start_time |-> start_time, anchor_desc |-> anchor_desc,
           last_time |-> last_time, timeline |-> timeline]

\* lines 106-115: sort, return [] on an empty dict, else set up the first block
Start ==
    /\ pc = "start"
    /\ sorted_times' = sorted(keys(json_data))
    /\ \/ /\ sorted_times' = <<>>
          /\ pc' = "done"
          /\ timeline' = <<>>
          /\ UNCHANGED <<i, start_time, anchor_desc, last_time>>
       \/ /\ sorted_times' # <<>>
          /\ LET st == first_block(sorted_times', json_data)
             IN  /\ start_time' = st.start_time
                 /\ anchor_desc' = st.anchor_desc
                 /\ last_time' = st.last_time
                 /\ timeline' = st.timeline
          /\ i' = 1
          /\ pc' = "loop"
    /\ UNCHANGED <<json_data, threshold>>
    /\ UNCHANGED <<codecVars, simVars, orderVars, sceneVars, mainVars, pipeVars, clearVars>>

\* lines 118-139: one iteration of the for loop
Iterate ==
    /\ pc = "loop"
    /\ i < Len(sorted_times)
    /\ LET current_time == sorted_times[i + 1]
           st == loop_body(locals, current_time, get(json_data, current_time), threshold)
       IN  /\ start_time' = st.start_time
           /\ anchor_desc' = st.anchor_desc
           /\ last_time' = st.last_time
           /\ timeline' = st.timeline
    /\ i' = i + 1
    /\ UNCHANGED <<json_data, threshold, pc, sorted_times>>
    /\ UNCHANGED <<codecVars, simVars, orderVars, sceneVars, mainVars, pipeVars, clearVars>>

\* lines 141-150: the loop is over, append the final block and return
Finish ==
    /\ pc = "loop"
    /\ i >= Len(sorted_times)
    /\ timeline' = final_timeline(locals)
    /\ pc' = "done"
    /\ UNCHANGED <<json_data, threshold, sorted_times, i, start_time, anchor_desc,
                   last_time>>
    /\ UNCHANGED <<codecVars, simVars, orderVars, sceneVars, mainVars, pipeVars, clearVars>>

\* caption dict keys: describeAI's HHH:MM:SS.mmm, the older [HHH:MM:SS], and
\* unpadded H:M:S
KeySet ==
    { <<"0","0","0",":","0","0",":","0","1",".","0","0","0">>,
      <<"[","0","0","0",":","0","0",":","0","2","]">>,
      <<"0",":","0",":","9">>,
      <<"0",":","0",":","1","0">> }

CaptionSet == { <<>>, <<"a","a">>, <<"a","b">>, <<"b","b">> }

ThresholdSet == {40, 50}

\* every str of at most n characters of the alphabet
Strings(alphabet, n) == UNION { [1..k -> alphabet] : k \in 0..n }

\* every dict of at most MaxSamples entries, in every insertion order
DictSet ==
    UNION { { d \in [1..n -> KeySet \X CaptionSet] :
                \A x, y \in 1..n : x # y => d[x][1] # d[y][1] } : n \in 0..MaxSamples }

GroupIdle ==
    /\ json_data = <<>> /\ threshold = 0 /\ pc = "idle" /\ sorted_times = <<>>
    /\ i = 0 /\ start_time = NoValue /\ anchor_desc = NoValue
    /\ last_time = NoValue /\ timeline = <<>>
CodecIdle == timestamp = <<>> /\ converted = <<>>
SimIdle   == sim_a = <<>> /\ sim_b = <<>> /\ sim_threshold = 0 /\ sim_result = <<>>
OrderIdle == writer = NoValue /\ fields1 = <<>> /\ fields2 = <<>> /\ canon1 = <<>> /\ canon2 = <<>>
SceneIdle ==
    /\ scene_changes = <<>> /\ video_duration = 0 /\ scenes = <<>>
    /\ extracted = <<>> /\ scene_json = <<>>
MainIdle  ==
    /\ fs = <<>> /\ args = <<>> /\ main_pc = NoValue /\ description_files = <<>>
    /\ file_i = 0 /\ processed_count = 0 /\ failed_count = 0
    /\ grouped_descriptions = <<>> /\ exit_code = <<>> /\ calls = <<>> /\ runs = 0
    /\ last_run = <<>>

PipeIdle ==
    /\ pipeline_directory = NoValue /\ video_folders = 0 /\ pipeline_pc = NoValue
    /\ running = FALSE /\ model_loaded = FALSE /\ folder_i = 0
    /\ descriptions_success = FALSE /\ pipeline_exit = <<>> /\ log = <<>>
ClearIdle ==
    /\ clear_tree = {} /\ target = <<>> /\ function = <<>> /\ root_path = <<>>
    /\ clear_pc = NoValue /\ response = <<>> /\ clear_exit = <<>>

InitGroup ==
    /\ json_data \in DictSet
    /\ threshold \in ThresholdSet
    /\ pc = "start"
    /\ sorted_times = <<>>
    /\ i = 0
    /\ start_time = NoValue
    /\ anchor_desc = NoValue
    /\ last_time = NoValue
    /\ timeline = <<>>
    /\ CodecIdle /\ SimIdle /\ OrderIdle /\ SceneIdle /\ MainIdle /\ PipeIdle /\ ClearIdle

NextGroup == Start \/ Iterate \/ Finish

SpecGroup == InitGroup /\ [][NextGroup]_vars

(***************************************************************************)
(* Properties of collapse_noisy_json (SpecGroup)                           *)
(***************************************************************************)
\* the keys of data in ascending str order, by rank
Ascending(data) ==
    LET K == {data[k][1] : k \in 1..Len(data)}
        rank(x) == Cardinality({y \in K : StrLess(y, x)}) + 1
    IN  [r \in 1..Len(data) |-> CHOOSE x \in K : rank(x) = r]

\* every insertion order of the same dict
Orders(data) ==
    LET n == Len(data)
    IN  { [k \in 1..n |-> data[f[k]]] :
            f \in {g \in [1..n -> 1..n] : \A x, y \in 1..n : x # y => g[x] # g[y]} }

\* the k-th smallest member of a set of numbers
Kth(E, k) == CHOOSE e \in E : Cardinality({x \in E : x <= e}) = k

IsCanonical(s) == Contains(s, ":") /\ Contains(s, ".")

AnchorCase ==
    /\ pc = "done"
    /\ Len(json_data) = 3
    /\ LET asc == Ascending(json_data)
           A == get(json_data, asc[1])
           B == get(json_data, asc[2])
           C == get(json_data, asc[3])
       IN  /\ are_similar(A, B, threshold)
           /\ are_similar(B, C, threshold)
           /\ ~are_similar(A, C, threshold)

\* C1: anchor fixation. For three samples in key order with texts A, B, C
\* where A~B, B~C and not A~C, the returned timeline is exactly two blocks:
\* the first from A's timestamp to B's with description A, the second from
\* C's timestamp to C's with description C.
C1_AnchorFixation ==
    AnchorCase =>
        LET asc == Ascending(json_data)
        IN  timeline =
              << [start_time  |-> convert_timestamp_format(asc[1]),
                  end_time    |-> convert_timestamp_format(asc[2]),
                  description |-> get(json_data, asc[1])],
                 [start_time  |-> convert_timestamp_format(asc[3]),
                  end_time    |-> convert_timestamp_format(asc[3]),
                  description |-> get(json_data, asc[3])] >>

C1_Witness == AnchorCase /\ Len(timeline) = 2

\* C2: coverage. The returned blocks cut the keys, taken in ascending str
\* order, into consecutive runs: block k starts at the key after the end of
\* block k-1 (the first at the smallest key) and the last block ends at the
\* largest key, so every sample lies in exactly one block.
C2_Coverage ==
    pc = "done" =>
        LET asc == Ascending(json_data)
            n == Len(asc)
            m == Len(timeline)
        IN  IF n = 0 THEN m = 0
            ELSE /\ m >= 1
                 /\ \E cuts \in SUBSET (1..(n - 1)) :
                       /\ Cardinality(cuts) = m - 1
                       /\ LET ends == cuts \cup {n}
                              first(k) == IF k = 1 THEN 1 ELSE Kth(ends, k - 1) + 1
                          IN  \A k \in 1..m :
                                /\ timeline[k].start_time =
                                       convert_timestamp_format(asc[first(k)])
                                /\ timeline[k].end_time =
                                       convert_timestamp_format(asc[Kth(ends, k)])

C2_Witness ==
    /\ pc = "done"
    /\ Len(json_data) = 3
    /\ Len(timeline) = 2
    /\ timeline[1].start_time # timeline[1].end_time

\* C3: in the timeline, the descriptions of two adjacent blocks are never
\* similar under the threshold.
C3_AdjacentNotSimilar ==
    \A k \in 1..(Len(timeline) - 1) :
        ~are_similar(timeline[k].description, timeline[k + 1].description, threshold)

C3_Witness == pc = "done" /\ Len(timeline) = 3

\* C4 as stated: every returned block has both timestamps in canonical form
\* (with ':' and '.') and start_time <= end_time as strings.
C4_CanonicalAndOrdered ==
    pc = "done" =>
        \A k \in 1..Len(timeline) :
            /\ IsCanonical(timeline[k].start_time)
            /\ IsCanonical(timeline[k].end_time)
            /\ StrLeq(timeline[k].start_time, timeline[k].end_time)

\* C5: the returned timeline is the same for every insertion order of the
\* same (timestamp, caption) pairs.
C5_OrderIndependent ==
    pc = "done" =>
        \A d \in Orders(json_data) : collapse_noisy_json(d, threshold) = timeline

C5_Witness ==
    /\ pc = "done"
    /\ Len(json_data) = 3
    /\ keys(json_data) # Ascending(json_data)
    /\ Len(timeline) = 2

\* C7: an empty dict gives the empty timeline; a dict of one sample gives
\* one block that starts and ends at that sample's timestamp and carries
\* its text.
C7_EmptyAndSingle ==
    pc = "done" =>
        /\ Len(json_data) = 0 => timeline = <<>>
        /\ Len(json_data) = 1 =>
              /\ Len(timeline) = 1
              /\ timeline[1].start_time = convert_timestamp_format(json_data[1][1])
              /\ timeline[1].end_time = timeline[1].start_time
              /\ timeline[1].description = json_data[1][2]

C7_Witness == pc = "done" /\ Len(json_data) = 1 /\ Len(timeline) = 1

\* the samples at positions p+1 .. q of the sorted keys are all similar to text
SimilarToAnchor(p, q, text) ==
    \A k \in (p + 1)..q : are_similar(text, get(json_data, sorted_times[k]), threshold)

\* C25: the run invariant.  Every emitted block runs from a sample at
\* position p of the sorted keys to one at q >= p, has the text of the sample
\* at p as its description, every sample after p up to q is similar to that
\* text, and the sample after q, if it has been read, is not.  The block
\* still open in the loop starts at a sample whose text is anchor_desc,
\* reaches to the last sample read, and every sample in it is similar to
\* anchor_desc.
C25_RunInvariant ==
    (pc \in {"loop", "done"} /\ sorted_times # <<>>) =>
        /\ \A b \in 1..Len(timeline) :
              \E p \in 1..i : \E q \in p..i :
                  /\ timeline[b].start_time = convert_timestamp_format(sorted_times[p])
                  /\ timeline[b].end_time = convert_timestamp_format(sorted_times[q])
                  /\ timeline[b].description = get(json_data, sorted_times[p])
                  /\ SimilarToAnchor(p, q, timeline[b].description)
                  /\ q < i => ~are_similar(timeline[b].description,
                                           get(json_data, sorted_times[q + 1]), threshold)
        /\ pc = "loop" =>
              \E p \in 1..i :
                  /\ start_time = sorted_times[p]
                  /\ last_time = sorted_times[i]
                  /\ anchor_desc = get(json_data, sorted_times[p])
                  /\ SimilarToAnchor(p, i, anchor_desc)

C25_Witness ==
    /\ pc = "done"
    /\ Len(sorted_times) = 3
    /\ Len(timeline) = 2
    /\ timeline[1].end_time = convert_timestamp_format(sorted_times[2])
    /\ timeline[1].description = get(json_data, sorted_times[1])
    /\ get(json_data, sorted_times[2]) # get(json_data, sorted_times[1])
    /\ are_similar(get(json_data, sorted_times[2]), get(json_data, sorted_times[3]), threshold)

(***************************************************************************)
(* are_similar on its own (SpecSimilar)                                    *)
(***************************************************************************)
TextChars == {"a", "b"}

\* thresholds that main accepts (0.0 to 1.0), among them the ratios that
\* short strings reach exactly and the defaults 0.6, 0.75 and 0.8
SimThresholdSet == {0, 25, 40, 50, 60, 75, 80, 100}

CallAreSimilar ==
    /\ sim_result = <<>>
    /\ sim_result' = <<are_similar(sim_a, sim_b, sim_threshold)>>
    /\ UNCHANGED <<sim_a, sim_b, sim_threshold>>
    /\ UNCHANGED <<groupVars, codecVars, orderVars, sceneVars, mainVars, pipeVars, clearVars>>

InitSimilar ==
    /\ sim_a \in Strings(TextChars, MaxTextLen)
    /\ sim_b \in Strings(TextChars, MaxTextLen)
    /\ sim_threshold \in SimThresholdSet
    /\ sim_result = <<>>
    /\ GroupIdle /\ CodecIdle /\ OrderIdle /\ SceneIdle /\ MainIdle /\ PipeIdle /\ ClearIdle

NextSimilar == CallAreSimilar

SpecSimilar == InitSimilar /\ [][NextSimilar]_vars

\* M and T of the ratio 2*M/T
MatchingChars == matches(sim_a, sim_b, 0, Len(sim_a), 0, Len(sim_b))
CombinedLen == Len(sim_a) + Len(sim_b)

\* C6 as stated: similar(a, b, t) is true iff 2*M/T > t, for all strings
\* (2*M/T > t/100 written without division).
C6_StrictForAllStrings ==
    sim_result # <<>> =>
        sim_result[1] = (200 * MatchingChars > sim_threshold * CombinedLen)

\* C6, amended: for a and b not both empty, similar(a, b, t) is true iff
\* 2*M/T > t, hence false when 2*M/T = t; for two empty strings the ratio is
\* 1.0 and similar is true iff t < 1.
C6_StrictBoundary ==
    sim_result # <<>> =>
        IF CombinedLen > 0
        THEN /\ sim_result[1] = (200 * MatchingChars > sim_threshold * CombinedLen)
             /\ 200 * MatchingChars = sim_threshold * CombinedLen => sim_result[1] = FALSE
        ELSE sim_result[1] = (sim_threshold < 100)

C6_Witness ==
    /\ sim_result = <<FALSE>>
    /\ CombinedLen > 0
    /\ MatchingChars > 0
    /\ 200 * MatchingChars = sim_threshold * CombinedLen

(***************************************************************************)
(* convert_timestamp_format on its own (SpecCodec)                         *)
(***************************************************************************)
TimestampChars == {"1", ":", ".", "[", "]", "-", "+"}

CallConvert ==
    /\ converted = <<>>
    /\ converted' = <<convert_timestamp_format(timestamp)>>
    /\ UNCHANGED timestamp
    /\ UNCHANGED <<groupVars, simVars, orderVars, sceneVars, mainVars, pipeVars, clearVars>>

InitCodec ==
    /\ timestamp \in Strings(TimestampChars, MaxTimestampLen)
    /\ converted = <<>>
    /\ GroupIdle /\ SimIdle /\ OrderIdle /\ SceneIdle /\ MainIdle /\ PipeIdle /\ ClearIdle

NextCodec == CallConvert

SpecCodec == InitCodec /\ [][NextCodec]_vars

\* a field with zeros put in front of it up to width 2
Pad2(f) == IF Len(f) >= 2 THEN f ELSE Zeros(2 - Len(f)) \o f

\* the same, but the zero goes behind a field that is a lone sign
Pad2Signed(f) ==
    IF Len(f) = 1 /\ f[1] \in {"+", "-"} THEN <<f[1], "0">> ELSE Pad2(f)

\* the reference of C8: what lies between the first and the last character
\* that is not a bracket, cut at its colons, each field zero-padded (behind
\* a lone sign if signed)
Reference(ts, signed) ==
    IF Contains(ts, ":") /\ Contains(ts, ".") THEN ts
    ELSE LET pad(f) == IF signed THEN Pad2Signed(f) ELSE Pad2(f)
             inner == {k \in 1..Len(ts) : ts[k] \notin {"[", "]"}}
             lo == CHOOSE k \in inner : \A m \in inner : k <= m
             hi == CHOOSE k \in inner : \A m \in inner : k >= m
             colons == {k \in inner : ts[k] = ":"}
             c1 == CHOOSE k \in colons : \A m \in colons : k <= m
             c2 == CHOOSE k \in colons : \A m \in colons : k >= m
         IN  IF Cardinality(colons) = 2
             THEN pad(SubSeq(ts, lo, c1 - 1)) \o <<":">>
                      \o pad(SubSeq(ts, c1 + 1, c2 - 1)) \o <<":">>
                      \o pad(SubSeq(ts, c2 + 1, hi)) \o <<".", "0", "0", "0">>
             ELSE ts

\* C8 as stated: the function returns the reference's value, each field
\* zero-padded to width 2 by zeros in front of it.
C8_EqualsReference ==
    converted # <<>> => converted[1] = Reference(timestamp, FALSE)

\* C8, amended: the function returns the reference's value, where a field
\* that is a lone '+' or '-' is padded behind the sign ("-" gives "-0"), as
\* str.zfill does.
C8_EqualsReferenceSigned ==
    converted # <<>> => converted[1] = Reference(timestamp, TRUE)

C8_Witness ==
    /\ converted # <<>>
    /\ converted[1] # timestamp
    /\ Len(timestamp) = MaxTimestampLen
    /\ timestamp[1] = "["
    /\ Contains(timestamp, "-")

(***************************************************************************)
(* The order of canonical timestamps (SpecOrder)                           *)
(***************************************************************************)
\* describeAI.py, format_timestamp(seconds: int, milliseconds: int)
format_timestamp_describeAI(seconds, milliseconds) ==
    LET h == seconds \div 3600
        m == (seconds % 3600) \div 60
        sec == seconds % 60
    IN  format_d(h, 3) \o <<":">> \o format_d(m, 2) \o <<":">> \o format_d(sec, 2)
            \o <<".">> \o format_d(milliseconds, 3)

\* the instant of <<hours, minutes, seconds>>, in seconds
Instant(f) == f[1] * 3600 + f[2] * 60 + f[3]

\* an unpadded H:M:S key of a caption dict
plain_timestamp(f) == str(f[1]) \o <<":">> \o str(f[2]) \o <<":">> \o str(f[3])

RECURSIVE Pow10(_)
Pow10(n) == IF n = 0 THEN 1 ELSE 10 * Pow10(n - 1)

\* hours fields of every digit count up to MaxHoursDigits
HoursSet ==
    {0} \cup UNION { {Pow10(d - 1), 2 * Pow10(d - 1), Pow10(d) - 1} : d \in 1..MaxHoursDigits }

MinSecSet == {0, 9, 59}

FieldSet == HoursSet \X MinSecSet \X MinSecSet

\* the timestamps are H:M:S strings, which convert_timestamp_format rewrites
CanonicalizePlain ==
    /\ writer = "plain"
    /\ canon1 = <<>>
    /\ canon1' = <<convert_timestamp_format(plain_timestamp(fields1))>>
    /\ canon2' = <<convert_timestamp_format(plain_timestamp(fields2))>>
    /\ UNCHANGED <<writer, fields1, fields2>>
    /\ UNCHANGED <<groupVars, codecVars, simVars, sceneVars, mainVars, pipeVars, clearVars>>

\* the timestamps are the keys describeAI.py writes (line 127), which
\* convert_timestamp_format returns as they are
CanonicalizeDescribeAI ==
    /\ writer = "describeAI"
    /\ canon1 = <<>>
    /\ canon1' = <<convert_timestamp_format(
                      format_timestamp_describeAI(Instant(fields1), 0))>>
    /\ canon2' = <<convert_timestamp_format(
                      format_timestamp_describeAI(Instant(fields2), 0))>>
    /\ UNCHANGED <<writer, fields1, fields2>>
    /\ UNCHANGED <<groupVars, codecVars, simVars, sceneVars, mainVars, pipeVars, clearVars>>

InitOrder ==
    /\ writer \in {"plain", "describeAI"}
    /\ fields1 \in FieldSet
    /\ fields2 \in FieldSet
    /\ canon1 = <<>>
    /\ canon2 = <<>>
    /\ GroupIdle /\ CodecIdle /\ SimIdle /\ SceneIdle /\ MainIdle /\ PipeIdle /\ ClearIdle

NextOrder == CanonicalizePlain \/ CanonicalizeDescribeAI

SpecOrder == InitOrder /\ [][NextOrder]_vars

\* the number of characters before the first ':'
HoursWidth(c) == (CHOOSE k \in 1..Len(c) : c[k] = ":" /\ \A m \in 1..(k - 1) : c[m] # ":") - 1

DEFAULT_SCENE_THRESHOLD == 40

\* float(s) in ticks, for s = digits '.' at most four digits
float(s) ==
    LET p == split(s, ".")
        frac == IF Len(p) = 2 THEN p[2] ELSE <<>>
    IN  int(p[1]) * 10000 + int(frac) * Pow10(4 - Len(frac))

parse_timestamp(timestamp_str) ==
    LET parts == split(timestamp_str, ":")
    IN  IF Len(parts) = 3
        THEN LET hours == int(parts[1])
                 minutes == int(parts[2])
                 seconds == float(parts[3])
             IN  hours * 36000000 + minutes * 600000 + seconds
        ELSE 0

\* round(x, 3) and the rounding of "%.3f", on ticks: to the nearest
\* thousandth of a second.  An exact half goes to the even thousandth here;
\* Python decides it by the float's binary value, and the durations and
\* change points below have no such half.
round3(x) ==
    LET q == x \div 10
        r == x % 10
    IN  IF r < 5 \/ (r = 5 /\ q % 2 = 0) THEN q * 10 ELSE (q + 1) * 10

\* as format_timestamp, but the minutes are those of the whole duration, not
\* of the last hour
format_timestamp_total_minutes(seconds) ==
    LET hours == seconds \div 36000000
        minutes == seconds \div 600000
        secs == seconds % 600000
        millis == round3(secs) \div 10
    IN  format_d(hours, 2) \o <<":">> \o format_d(minutes, 2) \o <<":">>
            \o format_d(millis \div 1000, 2) \o <<".">> \o format_d(millis % 1000, 3)

\* f"{hours:02d}:{minutes:02d}:{secs:06.3f}"
format_timestamp(seconds) ==
    LET hours == seconds \div 36000000
        minutes == (seconds % 36000000) \div 600000
        secs == seconds % 600000
        millis == round3(secs) \div 10
    IN  format_d(hours, 2) \o <<":">> \o format_d(minutes, 2) \o <<":">>
            \o format_d(millis \div 1000, 2) \o <<".">> \o format_d(millis % 1000, 3)

\* as create_scene_segments, but an interval ends at its own change point,
\* not at the next one
create_scene_segments_end_at_own_change(changes, duration) ==
    IF changes = <<>>
    THEN << [scene_number  |-> 1,
             start_time    |-> <<"0","0",":","0","0",":","0","0",".","0","0","0">>,
             end_time      |-> format_timestamp(duration),
             duration      |-> duration,
             scene_changes |-> <<>>] >>
    ELSE [k \in 1..Len(changes) |->
            LET scene_change == changes[k]
                last == k = Len(changes)
                end_time == IF ~last THEN changes[k].timestamp
                            ELSE format_timestamp(duration)
                start_seconds == scene_change.seconds
                end_seconds == IF ~last THEN changes[k].seconds ELSE duration
            IN  [scene_number  |-> k,
                 start_time    |-> scene_change.timestamp,
                 end_time      |-> end_time,
                 duration      |-> round3(end_seconds - start_seconds),
                 scene_changes |-> <<scene_change>>]]

create_scene_segments(changes, duration) ==
    IF changes = <<>>
    THEN << [scene_number  |-> 1,
             start_time    |-> <<"0","0",":","0","0",":","0","0",".","0","0","0">>,
             end_time      |-> format_timestamp(duration),
             duration      |-> duration,
             scene_changes |-> <<>>] >>
    ELSE [k \in 1..Len(changes) |->
            LET scene_change == changes[k]
                last == k = Len(changes)
                end_time == IF ~last THEN changes[k + 1].timestamp
                            ELSE format_timestamp(duration)
                start_seconds == scene_change.seconds
                end_seconds == IF ~last THEN changes[k + 1].seconds ELSE duration
            IN  [scene_number  |-> k,
                 start_time    |-> scene_change.timestamp,
                 end_time      |-> end_time,
                 duration      |-> round3(end_seconds - start_seconds),
                 scene_changes |-> <<scene_change>>]]

\* pts_time strings that the pattern of line 113 accepts
ChangeStampSet ==
    { <<"0",":","0","0",":","0","1",".","5">>,
      <<"0",":","0","0",":","0","4",".","1","0","0","0">>,
      <<"0",":","0","1",":","0","0",".","0">> }

FrameSet == {0, 30}

\* the dicts extract_scene_changes builds (lines 122-127)
ChangePointSet ==
    { [frame_number |-> n, timestamp |-> ts, seconds |-> parse_timestamp(ts),
       scene_score |-> DEFAULT_SCENE_THRESHOLD + 10] :
          n \in FrameSet, ts \in ChangeStampSet }

\* what extract_scene_changes returns: sorted by seconds (line 129)
ChangeListSet ==
    UNION { { c \in [1..n -> ChangePointSet] :
                \A k \in 1..(n - 1) : c[k].seconds <= c[k + 1].seconds } : n \in 0..MaxChanges }

\* 0 s, 0.5 s, 12.5 s, 59.9996 s, 1 h 1 min 1.001 s, 50 h 0.5 s
DurationSet == {0, 5000, 125000, 599996, 36610010, 1800005000}

CreateSceneSegments ==
    /\ scenes = <<>>
    /\ scenes' = <<create_scene_segments(scene_changes, video_duration)>>
    /\ UNCHANGED <<scene_changes, video_duration, extracted, scene_json>>
    /\ UNCHANGED <<groupVars, codecVars, simVars, orderVars, mainVars, pipeVars, clearVars>>

\* the dict of lines 267-272 for the video v, at the default threshold
scene_data_of(changes, duration) ==
    LET scenes_list == create_scene_segments(changes, duration)
    IN  [video_file      |-> <<"v">>,
         scene_threshold |-> DEFAULT_SCENE_THRESHOLD,
         total_scenes    |-> Len(scenes_list),
         scenes          |-> scenes_list]

\* as ExtractScenes, but total_scenes counts the detected changes
ExtractScenes_counting_changes ==
    /\ extracted = <<>>
    /\ IF video_duration <= 0
       THEN extracted' = <<FALSE>> /\ scene_json' = scene_json
       ELSE \E saved \in BOOLEAN :
                /\ extracted' = <<saved>>
                /\ scene_json' =
                       IF saved
                       THEN <<[scene_data_of(scene_changes, video_duration)
                                 EXCEPT !.total_scenes = Len(scene_changes)]>>
                       ELSE scene_json
    /\ UNCHANGED <<scene_changes, video_duration, scenes>>
    /\ UNCHANGED <<groupVars, codecVars, simVars, orderVars, mainVars, pipeVars, clearVars>>

\* extract_scenes on a video whose duration ffprobe gave as video_duration
\* (0 where it gave none) and whose changes are scene_changes; save_scene_data
\* returns False when the file cannot be opened
ExtractScenes ==
    /\ extracted = <<>>
    /\ IF video_duration <= 0
       THEN extracted' = <<FALSE>> /\ scene_json' = scene_json
       ELSE \E saved \in BOOLEAN :
                /\ extracted' = <<saved>>
                /\ scene_json' =
                       IF saved THEN <<scene_data_of(scene_changes, video_duration)>>
                       ELSE scene_json
    /\ UNCHANGED <<scene_changes, video_duration, scenes>>
    /\ UNCHANGED <<groupVars, codecVars, simVars, orderVars, mainVars, pipeVars, clearVars>>

InitScene ==
    /\ scene_changes \in ChangeListSet
    /\ video_duration \in DurationSet
    /\ scenes = <<>>
    /\ extracted = <<>>
    /\ scene_json = <<>>
    /\ GroupIdle /\ CodecIdle /\ SimIdle /\ OrderIdle /\ MainIdle /\ PipeIdle /\ ClearIdle

NextScene == CreateSceneSegments \/ ExtractScenes

SpecScene == InitScene /\ [][NextScene]_vars

\* d as HH:MM:SS.mmm: whole hours and whole minutes in two digits, the
\* seconds left over to three decimals
HMS(d) ==
    LET H == d \div 36000000
        M == (d - H * 36000000) \div 600000
        S == d - H * 36000000 - M * 600000
        ms == (S + 5) \div 10
    IN  Pad2(str(H)) \o <<":">> \o Pad2(str(M)) \o <<":">> \o Pad2(str(ms \div 1000))
            \o <<".">> \o str((ms % 1000) \div 100) \o str((ms % 100) \div 10)
            \o str(ms % 10)

\* C10: for an empty list of change points the result is exactly one
\* interval: scene_number 1, start_time 00:00:00.000, end_time the duration
\* as HH:MM:SS.mmm, duration the duration itself, no change points; a
\* duration of 12.5 s gives end_time 00:00:12.500.
C10_EmptyChangesOneScene ==
    (scenes # <<>> /\ scene_changes = <<>>) =>
        /\ Len(scenes[1]) = 1
        /\ scenes[1][1].scene_number = 1
        /\ scenes[1][1].start_time = <<"0","0",":","0","0",":","0","0",".","0","0","0">>
        /\ scenes[1][1].end_time = HMS(video_duration)
        /\ scenes[1][1].duration = video_duration
        /\ scenes[1][1].scene_changes = <<>>
        /\ video_duration = 125000 =>
               scenes[1][1].end_time = <<"0","0",":","0","0",":","1","2",".","5","0","0">>

C10_Witness ==
    /\ scenes # <<>>
    /\ scene_changes = <<>>
    /\ video_duration = 125000
    /\ Len(scenes[1]) = 1

\* C11: the intervals cover the video from 0 to its duration with no gap
\* and no overlap: the first interval starts at time 0, each interval ends
\* where the next one starts, and the last one ends at the duration.
C11_CoversWholeVideo ==
    (scenes # <<>> /\ video_duration > 0) =>
        LET s == scenes[1]
        IN  /\ parse_timestamp(s[1].start_time) = 0
            /\ \A k \in 1..(Len(s) - 1) : s[k].end_time = s[k + 1].start_time
            /\ s[Len(s)].end_time = HMS(video_duration)

\* r is x to three decimals: a whole number of thousandths, at most half a
\* thousandth away from x
IsRounded3(r, x) ==
    /\ r % 10 = 0
    /\ 2 * (r - x) <= 10
    /\ 2 * (x - r) <= 10

\* C12: n change points, n >= 1, give exactly n intervals; the k-th one has
\* scene_number k, starts at the raw timestamp of change point k, ends at
\* the raw timestamp of change point k + 1 (the last one at the duration as
\* HH:MM:SS.mmm), lasts the difference of the two times in seconds to three
\* decimals, and lists change point k alone.
C12_OneIntervalPerChange ==
    (scenes # <<>> /\ scene_changes # <<>>) =>
        LET s == scenes[1]
            n == Len(scene_changes)
        IN  /\ Len(s) = n
            /\ \A k \in 1..n :
                  /\ s[k].scene_number = k
                  /\ s[k].start_time = scene_changes[k].timestamp
                  /\ s[k].end_time = IF k < n THEN scene_changes[k + 1].timestamp
                                     ELSE HMS(video_duration)
                  /\ IsRounded3(s[k].duration,
                                (IF k < n THEN scene_changes[k + 1].seconds
                                 ELSE video_duration) - scene_changes[k].seconds)
                  /\ s[k].scene_changes = <<scene_changes[k]>>

C12_Witness ==
    /\ scenes # <<>>
    /\ Len(scene_changes) = 2
    /\ scene_changes[1].seconds < scene_changes[2].seconds
    /\ video_duration = 599996
    /\ Len(scenes[1]) = 2
    /\ scenes[1][2].duration = 559000

\* C13: every interval has a duration of at least 0, the last one included,
\* for every ascending list of change points and every positive duration of
\* the video.
C13_DurationsNonNegative ==
    (scenes # <<>> /\ video_duration > 0) =>
        \A k \in 1..Len(scenes[1]) : scenes[1][k].duration >= 0

(***************************************************************************)
(* scripts/des-group.py: merging with the scene data and the folder        *)
(* summaries (SpecMain)                                                    *)
(*                                                                         *)
(* A Path is [parent |-> the directory names from the input directory      *)
(* down, name |-> the file name].  A file's content is what json.load      *)
(* makes of it, tagged with its shape: "invalid" is a file that is not     *)
(* JSON.  None is <<>> and any other returned value v is <<v>>.            *)
(***************************************************************************)
MaxVideos == 2      \* videos under the input directory
MaxRuns == 2        \* starts of the program on the same tree

startswith(s, prefix) == Len(s) >= Len(prefix) /\ SubSeq(s, 1, Len(prefix)) = prefix

endswith(s, suffix) ==
    Len(s) >= Len(suffix) /\ SubSeq(s, Len(s) - Len(suffix) + 1, Len(s)) = suffix

\* s.replace(old, new): every occurrence, left to right, without overlap
RECURSIVE replace(_, _, _)
replace(s, old, new) ==
    IF Len(s) < Len(old) THEN s
    ELSE IF startswith(s, old)
         THEN new \o replace(SubSeq(s, Len(old) + 1, Len(s)), old, new)
         ELSE <<s[1]>> \o replace(Tail(s), old, new)

DotJson         == <<".", "j", "s", "o", "n">>
DotDescription  == <<".", "d", "e", "s", "c", "r", "i", "p", "t", "i", "o", "n">>
DotDescriptions == DotDescription \o <<"s">>
DotScene        == <<".", "s", "c", "e", "n", "e">>

\* PurePath.stem: the name without its last suffix
stem(name) ==
    LET dots == { k \in 1..Len(name) : name[k] = "." }
        last == CHOOSE k \in dots : \A m \in dots : m <= k
    IN  IF dots = {} THEN name
        ELSE IF 1 < last /\ last < Len(name) THEN SubSeq(name, 1, last - 1)
        ELSE name

\* Path(folder).name; Path('.') has no parts and the name ''
folder_name_of(folder) == IF folder = <<>> THEN <<>> ELSE folder[Len(folder)]

\* folder / name
joinpath(folder, name) == [parent |-> folder, name |-> name]

exists(files, path) == path \in DOMAIN files

\* the file system after open(path, 'w') and a write of content
write(files, path, content) ==
    [q \in (DOMAIN files) \cup {path} |-> IF q = path THEN content ELSE files[q]]

\* d.get(key, default)
dict_get(d, key, default) == IF key \in DOMAIN d THEN d[key] ELSE default

\* d[key] = value on a dict held as its pairs: a known key keeps its place
dict_set(d, key, value) ==
    IF \E k \in 1..Len(d) : d[k][1] = key
    THEN [k \in 1..Len(d) |-> IF d[k][1] = key THEN <<key, value>> ELSE d[k]]
    ELSE Append(d, <<key, value>>)

is_video_description_file(file_path) ==
    LET filename == stem(file_path.name)
        folder_name == folder_name_of(file_path.parent)
    IN  filename # folder_name \o DotDescription

load_scene_data(files, video_path) ==
    LET video_stem0 == stem(video_path.name)
        video_stem == IF endswith(video_stem0, DotDescription)
                      THEN replace(video_stem0, DotDescription, <<>>)
                      ELSE video_stem0
        scene_path == joinpath(video_path.parent, video_stem \o DotScene \o DotJson)
    IN  IF ~exists(files, scene_path) THEN <<>>
        ELSE IF files[scene_path].type = "invalid" THEN <<>>
        ELSE <<files[scene_path]>>

\* the text can be written to a file opened with encoding='utf-8': it holds
\* no surrogate code point
utf8_encodable(text) == \A k \in 1..Len(text) : Ord(text[k]) \notin 55296..57343

\* json.dump(merged_output, f, ensure_ascii=False) gets to its end
dump_succeeds(merged_output) ==
    \A k \in 1..Len(merged_output["timestamps"]) :
        utf8_encodable(merged_output["timestamps"][k].description)

\* the caption dict the shape test of lines 238-252 picks, or <<>> where it
\* returns None
descriptions_of(data) ==
    CASE data.type = "nested" ->
            IF Len(data.nested_videos) = 1 THEN <<data.nested_videos[1][2]>> ELSE <<>>
      [] data.type = "captions" ->
            IF \E k \in 1..Len(data.descriptions) :
                   startswith(data.descriptions[k][1], <<"0", "0", "0", ":">>)
            THEN <<data.descriptions>>
            ELSE <<>>
      [] OTHER -> <<>>

\* isinstance(value, dict) for a loaded JSON value
is_dict(value) == value.type \in {"captions", "nested", "scene", "artifact", "summary"}

\* a loaded scene file as the dict that .get() is called on: only a scene
\* file has the keys scene_threshold, total_scenes and scenes
as_dict(value) == IF value.type = "scene" THEN value.scene_data ELSE <<>>

\* as merged_output_of, but a missing scene_threshold is given as 0.8, the
\* default of --threshold
merged_output_of_grouping_default(grouped_timeline, scene_data) ==
    ("timestamps" :> grouped_timeline) @@
    ("scenes-info" :>
        [scene_threshold |-> dict_get(scene_data, "scene_threshold", 80),
         total_scenes    |-> dict_get(scene_data, "total_scenes", 0),
         scenes          |-> dict_get(scene_data, "scenes", <<>>)])

merged_output_of(grouped_timeline, scene_data) ==
    ("timestamps" :> grouped_timeline) @@
    ("scenes-info" :>
        [scene_threshold |-> dict_get(scene_data, "scene_threshold", 40),
         total_scenes    |-> dict_get(scene_data, "total_scenes", 0),
         scenes          |-> dict_get(scene_data, "scenes", <<>>)])

output_path_of(file_path) ==
    joinpath(file_path.parent,
             replace(stem(file_path.name), DotDescription, <<>>) \o DotDescriptions \o DotJson)

\* the element of a one-element set
the(S) == CHOOSE x \in S : TRUE

\* lines 267-288: the merge with the scene data, and the write
merge_and_write(files, file_path, grouped_timeline, scene_data) ==
    LET merged_output == merged_output_of(grouped_timeline, as_dict(scene_data))
        output_path == output_path_of(file_path)
    IN  IF ~dump_succeeds(merged_output)
        THEN [result |-> <<>>, files |-> write(files, output_path, [type |-> "invalid"])]
        ELSE [result |-> <<output_path>>,
              files |-> write(files, output_path,
                              [type |-> "artifact", merged |-> merged_output])]

\* as process_description_file, but a video without scene data is merged with
\* the defaults
process_description_file_scene_optional(files, file_path, t) ==
    LET data == files[file_path]
        descriptions == descriptions_of(data)
        scene_data == load_scene_data(files, file_path)
    IN  IF data.type = "invalid" THEN [result |-> <<>>, files |-> files]
        ELSE IF descriptions = <<>> THEN [result |-> <<>>, files |-> files]
        ELSE the({ merge_and_write(files, file_path, grouped_timeline,
                                   IF scene_data = <<>> THEN [type |-> "scene", scene_data |-> <<>>]
                                   ELSE scene_data[1]) :
                     grouped_timeline \in {collapse_noisy_json(descriptions[1], t)} })

\* [result |-> what the call returns, files |-> the file system it leaves];
\* grouped_timeline is computed once, as in the code
process_description_file(files, file_path, t) ==
    LET data == files[file_path]
        descriptions == descriptions_of(data)
        scene_data == load_scene_data(files, file_path)
    IN  IF data.type = "invalid" THEN [result |-> <<>>, files |-> files]
        ELSE IF descriptions = <<>> THEN [result |-> <<>>, files |-> files]
        ELSE IF scene_data = <<>> THEN [result |-> <<>>, files |-> files]
        ELSE IF ~is_dict(scene_data[1]) THEN [result |-> <<>>, files |-> files]
        ELSE the({ merge_and_write(files, file_path, grouped_timeline, scene_data[1]) :
                     grouped_timeline \in {collapse_noisy_json(descriptions[1], t)} })

\* directory is folder or one of its ancestors
is_under(folder, directory) ==
    Len(directory) <= Len(folder) /\ SubSeq(folder, 1, Len(directory)) = directory

\* Path.__lt__: the parts are compared one by one, as str
RECURSIVE PartsLess(_, _)
PartsLess(a, b) ==
    IF b = <<>> THEN FALSE
    ELSE IF a = <<>> THEN TRUE
    ELSE IF a[1] # b[1] THEN StrLess(a[1], b[1])
    ELSE PartsLess(Tail(a), Tail(b))

parts(path) == Append(path.parent, path.name)

\* as sorted_paths, but the file name is compared before the folders
RECURSIVE sorted_paths_name_first(_)
sorted_paths_name_first(S) ==
    IF S = {} THEN <<>>
    ELSE LET least == CHOOSE x \in S : \A y \in S \ {x} :
                          PartsLess(<<x.name>> \o x.parent, <<y.name>> \o y.parent)
         IN  <<least>> \o sorted_paths_name_first(S \ {least})

\* sorted() of a collection of distinct Paths
RECURSIVE sorted_paths(_)
sorted_paths(S) ==
    IF S = {} THEN <<>>
    ELSE LET least == CHOOSE x \in S : \A y \in S \ {x} : PartsLess(parts(x), parts(y))
         IN  <<least>> \o sorted_paths(S \ {least})

\* directory.rglob("*.description.json"), filtered
find_description_files(files, directory) ==
    { file_path \in DOMAIN files :
        /\ is_under(file_path.parent, directory)
        /\ endswith(file_path.name, DotDescription \o DotJson)
        /\ is_video_description_file(file_path) }

create_folder_descriptions_summary(files, folder, grouped) ==
    write(files,
          joinpath(folder, folder_name_of(folder) \o DotDescriptions \o DotJson),
          [type |-> "summary", folder |-> folder_name_of(folder), videos |-> grouped])

\* as summary_files, but the folder's own summary is listed with the others
summary_files_with_own_summary(files, folder) ==
    sorted_paths({ f \in DOMAIN files :
                     /\ f.parent = folder
                     /\ endswith(f.name, DotDescriptions \o DotJson) })

\* the *.descriptions.json of one folder that are not its own summary, in
\* the order of their names
summary_files(files, folder) ==
    sorted_paths({ f \in DOMAIN files :
                     /\ f.parent = folder
                     /\ endswith(f.name, DotDescriptions \o DotJson)
                     /\ f.name # folder_name_of(folder) \o DotDescriptions \o DotJson })

\* local_grouped after the loop of lines 367-375: a file that does not load
\* is left out
RECURSIVE local_grouped_of(_, _)
local_grouped_of(files, sum_paths) ==
    IF sum_paths = <<>> THEN <<>>
    ELSE LET rest == local_grouped_of(files, SubSeq(sum_paths, 1, Len(sum_paths) - 1))
             sum_path == sum_paths[Len(sum_paths)]
             video_stem == replace(sum_path.name, DotDescriptions \o DotJson, <<>>)
         IN  IF files[sum_path].type = "invalid" THEN rest
             ELSE dict_set(rest, video_stem, files[sum_path])

\* one turn of the os.walk loop
local_summary(files, folder) ==
    LET local_grouped == local_grouped_of(files, summary_files(files, folder))
    IN  IF local_grouped = <<>> THEN files
        ELSE write(files,
                   joinpath(folder, folder_name_of(folder) \o DotDescriptions \o DotJson),
                   [type |-> "summary", folder |-> folder_name_of(folder),
                    videos |-> local_grouped])

\* os.walk over the folders given: a turn reads and writes its own folder only
RECURSIVE walk(_, _)
walk(files, folders) ==
    IF folders = {} THEN files
    ELSE LET folder == CHOOSE f \in folders : TRUE
         IN  walk(local_summary(files, folder), folders \ {folder})

\* a folder without files gets no summary (line 364), so the walk is taken
\* over the folders under root_dir that hold a file
create_local_summaries(files, root_dir) ==
    walk(files, { f.parent : f \in { g \in DOMAIN files : is_under(g.parent, root_dir) } })

\* the directory c with its subfolders c/a and c/a/b, named from the
\* directory that holds c
Root == << <<"c">> >>

FolderSet == { Root, Root \o << <<"a">> >>, Root \o << <<"a">>, <<"b">> >> }

\* Path('.')
Dot == <<>>

\* the tree as the process sees it from its working directory: paths are
\* relative to cwd
seen_from(tree, cwd) ==
    [path \in { joinpath(SubSeq(q.parent, Len(cwd) + 1, Len(q.parent)), q.name) :
                  q \in DOMAIN tree } |->
        tree[joinpath(cwd \o path.parent, path.name)]]

\* and back: the tree named from the directory that holds c
absolute(files, cwd) ==
    [q \in { joinpath(cwd \o path.parent, path.name) : path \in DOMAIN files } |->
        files[joinpath(SubSeq(q.parent, Len(cwd) + 1, Len(q.parent)), q.name)]]

\* videos as <<folder, identifier>>: b in the root, two named v in the
\* folders below it, and one named after its folder
VideoSet ==
    { <<Root, <<"b">> >>,
      <<Root \o << <<"a">> >>, <<"v">> >>,
      <<Root \o << <<"a">> >>, <<"a">> >>,
      <<Root \o << <<"a">>, <<"b">> >>, <<"v">> >> }

\* the keys describeAI writes for the frames at 0 s and 1 s
FrameKeys == << format_timestamp_describeAI(0, 0), format_timestamp_describeAI(1, 0) >>

\* what the caption file of a video holds.  The captions name the folder and
\* the video, so two videos never have the same ones.
caption_file(video, shape) ==
    LET text == folder_name_of(video[1]) \o video[2]
        frames == << <<FrameKeys[1], text>>, <<FrameKeys[2], text \o <<"b">> >> >>
    IN  CASE shape = "direct" -> [type |-> "captions", descriptions |-> frames]
          [] shape = "nested" ->
                [type |-> "nested", nested_videos |-> << <<video[2], frames>> >>]
          [] shape = "bracketed" ->
                [type |-> "captions",
                 descriptions |-> << << <<"[", "0", "0", "0", ":", "0", "0", ":", "0", "1", "]">>,
                                        text >> >>]
          [] shape = "surrogate" ->
                [type |-> "captions",
                 descriptions |-> << <<FrameKeys[1], text>>, <<FrameKeys[2], <<"U+D800">> >> >>]
          [] shape = "malformed" -> [type |-> "invalid"]

\* what scene-extractor.py saved for a video without scene changes
scene_file(shape) ==
    LET scenes_list == create_scene_segments(<<>>, 125000)
    IN  CASE shape = "full" ->
                [type |-> "scene",
                 scene_data |-> [video_file |-> <<"v">>, scene_threshold |-> 30,
                                 total_scenes |-> Len(scenes_list), scenes |-> scenes_list]]
          [] shape = "empty" -> [type |-> "scene", scene_data |-> <<>>]
          [] shape = "unloadable" -> [type |-> "invalid"]

\* a merged artifact left by an earlier run
old_artifact == [type |-> "artifact", merged |-> merged_output_of(<<>>, <<>>)]

\* a video's files: its caption file, its scene file or none, and whether an
\* earlier run left its merged artifact
VariantSet ==
    { [caption |-> "direct",    scene |-> "full",       old |-> FALSE],
      [caption |-> "direct",    scene |-> "full",       old |-> TRUE],
      [caption |-> "nested",    scene |-> "empty",      old |-> FALSE],
      [caption |-> "direct",    scene |-> "absent",     old |-> FALSE],
      [caption |-> "direct",    scene |-> "absent",     old |-> TRUE],
      [caption |-> "direct",    scene |-> "unloadable", old |-> FALSE],
      [caption |-> "malformed", scene |-> "full",       old |-> FALSE],
      [caption |-> "bracketed", scene |-> "full",       old |-> FALSE],
      [caption |-> "surrogate", scene |-> "full",       old |-> TRUE] }

caption_path(video) == joinpath(video[1], video[2] \o DotDescription \o DotJson)
scene_path_of(video) == joinpath(video[1], video[2] \o DotScene \o DotJson)
artifact_path(video) == joinpath(video[1], video[2] \o DotDescriptions \o DotJson)

\* the files of the videos chosen, each with its variant
files_of(videos, variant) ==
    LET present == { caption_path(v) : v \in videos }
                   \cup { scene_path_of(v) : v \in { w \in videos : variant[w].scene # "absent" } }
                   \cup { artifact_path(v) : v \in { w \in videos : variant[w].old } }
        owner(path) == CHOOSE v \in videos : path.parent = v[1] /\ startswith(path.name, v[2] \o <<".">>)
    IN  [path \in present |->
            LET v == owner(path)
            IN  IF path = caption_path(v) THEN caption_file(v, variant[v].caption)
                ELSE IF path = scene_path_of(v) THEN scene_file(variant[v].scene)
                ELSE old_artifact]

\* args after parse_args: --threshold in hundredths and the input directory,
\* with the working directory the program is started in: the directory that
\* holds c, or c itself.  The input directory is c by its name, c as '.', a
\* name that is not there, or the path of a caption file.
ArgsSet ==
    { [threshold |-> 80,  input_directory |-> Root, cwd |-> <<>>],
      [threshold |-> 80,  input_directory |-> Dot,  cwd |-> Root],
      [threshold |-> 150, input_directory |-> Root, cwd |-> <<>>],
      [threshold |-> 80,  input_directory |-> << <<"n">> >>, cwd |-> <<>>],
      [threshold |-> 80,  input_directory |-> Root \o <<caption_path(<<Root, <<"b">> >>).name>>,
       cwd |-> <<>>] }

\* the command lines that pass the checks of lines 418-432
ValidArgsSet ==
    { a \in ArgsSet : a.threshold \in 0..100 /\ a.cwd \o a.input_directory \in FolderSet }

\* Path.is_dir() and Path.exists() of a path given from the working directory
is_dir(cwd, path) == cwd \o path \in FolderSet

path_exists(files, cwd, path) ==
    \/ is_dir(cwd, path)
    \/ /\ path # <<>>
       /\ joinpath(SubSeq(path, 1, Len(path) - 1), path[Len(path)]) \in DOMAIN files

\* as ParseArgs, but only the threshold is checked
ParseArgs_directory_unchecked ==
    /\ main_pc = "start"
    /\ IF ~(0 <= args.threshold /\ args.threshold <= 100)
       THEN main_pc' = "done" /\ exit_code' = <<1>>
       ELSE main_pc' = "find" /\ exit_code' = exit_code
    /\ UNCHANGED <<fs, args, description_files, file_i, processed_count, failed_count,
                   grouped_descriptions, calls, runs, last_run>>
    /\ UNCHANGED <<groupVars, codecVars, simVars, orderVars, sceneVars, pipeVars, clearVars>>

\* lines 418-432
ParseArgs ==
    /\ main_pc = "start"
    /\ IF ~(0 <= args.threshold /\ args.threshold <= 100)
       THEN main_pc' = "done" /\ exit_code' = <<1>>
       ELSE IF ~path_exists(fs, args.cwd, args.input_directory)
       THEN main_pc' = "done" /\ exit_code' = <<1>>
       ELSE IF ~is_dir(args.cwd, args.input_directory)
       THEN main_pc' = "done" /\ exit_code' = <<1>>
       ELSE main_pc' = "find" /\ exit_code' = exit_code
    /\ UNCHANGED <<fs, args, description_files, file_i, processed_count, failed_count,
                   grouped_descriptions, calls, runs, last_run>>
    /\ UNCHANGED <<groupVars, codecVars, simVars, orderVars, sceneVars, pipeVars, clearVars>>

\* lines 443-457
FindDescriptionFiles ==
    /\ main_pc = "find"
    /\ LET found == find_description_files(fs, args.input_directory)
       IN  IF found = {}
           THEN /\ main_pc' = "done"
                /\ exit_code' = <<0>>
                /\ UNCHANGED description_files
           ELSE /\ main_pc' = "loop"
                /\ exit_code' = exit_code
                /\ description_files' = sorted_paths(found)
    /\ file_i' = 0
    /\ processed_count' = 0
    /\ failed_count' = 0
    /\ grouped_descriptions' = <<>>
    /\ UNCHANGED <<fs, args, calls, runs, last_run>>
    /\ UNCHANGED <<groupVars, codecVars, simVars, orderVars, sceneVars, pipeVars, clearVars>>

\* as ProcessNext, but the loop is left at the first file that fails
ProcessNext_stop_on_failure ==
    /\ main_pc = "loop"
    /\ file_i < Len(description_files)
    /\ \E file_path \in {description_files[file_i + 1]} :
       \E call \in {process_description_file(fs, file_path, args.threshold)} :
           /\ fs' = call.files
           /\ calls' = Append(calls, [file_path |-> file_path, result |-> call.result])
           /\ IF call.result # <<>>
              THEN LET result == call.result[1]
                       video_stem == replace(stem(result.name), DotDescriptions, <<>>)
                   IN  /\ processed_count' = processed_count + 1
                       /\ failed_count' = failed_count
                       /\ grouped_descriptions' =
                              dict_set(grouped_descriptions, video_stem, call.files[result])
                       /\ main_pc' = IF file_i + 1 = Len(description_files)
                                     THEN "summary" ELSE "loop"
              ELSE /\ failed_count' = failed_count + 1
                   /\ main_pc' = "summary"
                   /\ UNCHANGED <<processed_count, grouped_descriptions>>
    /\ file_i' = file_i + 1
    /\ UNCHANGED <<args, description_files, exit_code, runs, last_run>>
    /\ UNCHANGED <<groupVars, codecVars, simVars, orderVars, sceneVars, pipeVars, clearVars>>

\* one turn of the loop of lines 459-476
ProcessNext ==
    /\ main_pc = "loop"
    /\ file_i < Len(description_files)
    /\ \E file_path \in {description_files[file_i + 1]} :
       \E call \in {process_description_file(fs, file_path, args.threshold)} :
           /\ fs' = call.files
           /\ calls' = Append(calls, [file_path |-> file_path, result |-> call.result])
           /\ IF call.result # <<>>
              THEN LET result == call.result[1]
                       video_stem == replace(stem(result.name), DotDescriptions, <<>>)
                   IN  /\ processed_count' = processed_count + 1
                       /\ failed_count' = failed_count
                       /\ grouped_descriptions' =
                              dict_set(grouped_descriptions, video_stem, call.files[result])
              ELSE /\ failed_count' = failed_count + 1
                   /\ UNCHANGED <<processed_count, grouped_descriptions>>
    /\ file_i' = file_i + 1
    /\ main_pc' = IF file_i + 1 = Len(description_files) THEN "summary" ELSE "loop"
    /\ UNCHANGED <<args, description_files, exit_code, runs, last_run>>
    /\ UNCHANGED <<groupVars, codecVars, simVars, orderVars, sceneVars, pipeVars, clearVars>>

\* lines 488-491
CreateFolderDescriptionsSummary ==
    /\ main_pc = "summary"
    /\ processed_count > 0
    /\ fs' = create_folder_descriptions_summary(fs, args.input_directory, grouped_descriptions)
    /\ main_pc' = "local"
    /\ UNCHANGED <<args, description_files, file_i, processed_count, failed_count,
                   grouped_descriptions, exit_code, calls, runs, last_run>>
    /\ UNCHANGED <<groupVars, codecVars, simVars, orderVars, sceneVars, pipeVars, clearVars>>

\* lines 493-496, and the return of main
CreateLocalSummaries ==
    /\ main_pc = "local"
    /\ fs' = create_local_summaries(fs, args.input_directory)
    /\ main_pc' = "done"
    /\ exit_code' = <<0>>
    /\ UNCHANGED <<args, description_files, file_i, processed_count, failed_count,
                   grouped_descriptions, calls, runs, last_run>>
    /\ UNCHANGED <<groupVars, codecVars, simVars, orderVars, sceneVars, pipeVars, clearVars>>

\* line 488 with no video processed, and the return of main
NoSummaries ==
    /\ main_pc = "summary"
    /\ processed_count = 0
    /\ main_pc' = "done"
    /\ exit_code' = <<0>>
    /\ UNCHANGED <<fs, args, description_files, file_i, processed_count, failed_count,
                   grouped_descriptions, calls, runs, last_run>>
    /\ UNCHANGED <<groupVars, codecVars, simVars, orderVars, sceneVars, pipeVars, clearVars>>

\* the program is started again on the tree the last run left.  A run that
\* ended with status 1 has left the tree as it found it, so what follows it
\* is what follows the run before it.
Restart ==
    /\ main_pc = "done"
    /\ exit_code = <<0>>
    /\ runs < MaxRuns
    /\ runs' = runs + 1
    /\ last_run' = <<[args |-> args, tree |-> absolute(fs, args.cwd)]>>
    /\ args' \in ValidArgsSet
    /\ fs' = seen_from(absolute(fs, args.cwd), args'.cwd)
    /\ main_pc' = "start"
    /\ exit_code' = <<>>
    /\ calls' = <<>>
    /\ description_files' = <<>>
    /\ file_i' = 0
    /\ processed_count' = 0
    /\ failed_count' = 0
    /\ grouped_descriptions' = <<>>
    /\ UNCHANGED <<groupVars, codecVars, simVars, orderVars, sceneVars, pipeVars, clearVars>>

InitMain ==
    /\ args \in ArgsSet
    /\ \E videos \in SUBSET VideoSet :
          /\ Cardinality(videos) <= MaxVideos
          /\ \E variant \in [videos -> VariantSet] :
                 fs = seen_from(files_of(videos, variant), args.cwd)
    /\ main_pc = "start"
    /\ description_files = <<>>
    /\ file_i = 0
    /\ processed_count = 0
    /\ failed_count = 0
    /\ grouped_descriptions = <<>>
    /\ exit_code = <<>>
    /\ calls = <<>>
    /\ runs = 1
    /\ last_run = <<>>
    /\ GroupIdle /\ CodecIdle /\ SimIdle /\ OrderIdle /\ SceneIdle /\ PipeIdle /\ ClearIdle

NextMain ==
    \/ ParseArgs
    \/ FindDescriptionFiles
    \/ ProcessNext
    \/ CreateFolderDescriptionsSummary
    \/ CreateLocalSummaries
    \/ NoSummaries
    \/ Restart

SpecMain == InitMain /\ [][NextMain]_vars

\* the <id> of a caption file <id>.description.json, and the video's other files
VideoId(file_path) ==
    SubSeq(file_path.name, 1, Len(file_path.name) - Len(DotDescription \o DotJson))

SceneOf(file_path) == joinpath(file_path.parent, VideoId(file_path) \o DotScene \o DotJson)

ArtifactOf(file_path) ==
    joinpath(file_path.parent, VideoId(file_path) \o DotDescriptions \o DotJson)

\* the companion scene file is there and is JSON
SceneLoadable(file_path) ==
    SceneOf(file_path) \in DOMAIN fs /\ fs[SceneOf(file_path)].type # "invalid"

\* the caption file has one of the two caption-map shapes
CaptionValid(file_path) == descriptions_of(fs[file_path]) # <<>>

\* C14: for a video whose <id>.scene.json is missing or cannot be loaded,
\* process_description_file returns nothing, no file is written and the
\* top-level mapping stays as it was; and a call that returns a merged
\* artifact had a loadable caption file and loadable scene data.
C14_NoSceneNoArtifact ==
    [][ (main_pc = "loop" /\ file_i' = file_i + 1) =>
            LET file_path == description_files[file_i + 1]
                returned == calls'[Len(calls')].result
            IN  /\ ~SceneLoadable(file_path) =>
                      /\ returned = <<>>
                      /\ fs' = fs
                      /\ grouped_descriptions' = grouped_descriptions
                /\ returned # <<>> =>
                      /\ SceneLoadable(file_path)
                      /\ fs[file_path].type # "invalid"
                      /\ returned[1] = ArtifactOf(file_path)
                      /\ fs'[returned[1]].type = "artifact" ]_vars

C14_Witness ==
    /\ main_pc = "done"
    /\ processed_count = 1
    /\ \E k \in 1..Len(calls) :
          /\ CaptionValid(calls[k].file_path)
          /\ SceneOf(calls[k].file_path) \notin DOMAIN fs
          /\ ArtifactOf(calls[k].file_path) \notin DOMAIN fs
          /\ calls[k].result = <<>>
          /\ \E j \in 1..Len(calls) :
                /\ calls[j].result # <<>>
                /\ grouped_descriptions =
                       << <<VideoId(calls[j].file_path), fs[calls[j].result[1]]>> >>

\* C15: processing a video whose caption file is valid and whose scene
\* artifact is missing leaves failed_count as it was.
C15_SkipIsNotAFailure ==
    [][ (/\ main_pc = "loop"
         /\ file_i' = file_i + 1
         /\ CaptionValid(description_files[file_i + 1])
         /\ SceneOf(description_files[file_i + 1]) \notin DOMAIN fs)
            => failed_count' = failed_count ]_vars

\* C16: the merged artifact of a processed video has the grouped timeline as
\* its timestamps, and in scenes-info the scene_threshold, total_scenes and
\* scenes of the scene artifact, or 0.4, 0 and the empty list for a field the
\* scene artifact does not have.
C16_MergedArtifact ==
    [][ (main_pc = "loop" /\ file_i' = file_i + 1 /\ calls'[Len(calls')].result # <<>>) =>
            LET file_path == description_files[file_i + 1]
                artifact == fs'[ArtifactOf(file_path)]
                scene == fs[SceneOf(file_path)].scene_data
                info == artifact.merged["scenes-info"]
            IN  /\ artifact.type = "artifact"
                /\ DOMAIN artifact.merged = {"timestamps", "scenes-info"}
                /\ artifact.merged["timestamps"] =
                       collapse_noisy_json(descriptions_of(fs[file_path])[1], args.threshold)
                /\ DOMAIN info = {"scene_threshold", "total_scenes", "scenes"}
                /\ info.scene_threshold =
                       IF "scene_threshold" \in DOMAIN scene THEN scene.scene_threshold ELSE 40
                /\ info.total_scenes =
                       IF "total_scenes" \in DOMAIN scene THEN scene.total_scenes ELSE 0
                /\ info.scenes = IF "scenes" \in DOMAIN scene THEN scene.scenes ELSE <<>> ]_vars

C16_Witness ==
    /\ \E k \in 1..Len(calls) :
          /\ calls[k].result # <<>>
          /\ DOMAIN fs[SceneOf(calls[k].file_path)].scene_data = {}
          /\ fs[calls[k].result[1]].merged["scenes-info"].scene_threshold = 40
          /\ fs[calls[k].result[1]].merged["scenes-info"].scenes = <<>>
    /\ \E k \in 1..Len(calls) :
          /\ calls[k].result # <<>>
          /\ "scene_threshold" \in DOMAIN fs[SceneOf(calls[k].file_path)].scene_data
          /\ fs[calls[k].result[1]].merged["scenes-info"].scene_threshold = 30
          /\ fs[calls[k].result[1]].merged["scenes-info"].total_scenes = 1
          /\ Len(fs[calls[k].result[1]].merged["timestamps"]) = 2

\* the per-video caption files under the input directory: every
\* *.description.json that is not named after its folder
Discovered ==
    { f \in DOMAIN fs :
        /\ is_under(f.parent, args.input_directory)
        /\ endswith(f.name, DotDescription \o DotJson)
        /\ VideoId(f) # folder_name_of(f.parent) }

\* the loop has been left
LoopLeft == main_pc \in {"summary", "local"} \/ (main_pc = "done" /\ description_files # <<>>)

\* C17: the loop goes through every discovered caption file exactly once,
\* whatever the earlier files gave: the calls made so far are the first
\* file_i discovered files, one call each, each counted as processed or as
\* failed, and when the loop is left all of them have been called and
\* processed_count + failed_count is their number.
C17_FailureIsolation ==
    /\ Len(calls) = file_i
    /\ processed_count + failed_count = file_i
    /\ processed_count = Cardinality({ k \in 1..Len(calls) : calls[k].result # <<>> })
    /\ file_i <= Len(description_files)
    /\ \A k \in 1..Len(calls) : calls[k].file_path = description_files[k]
    /\ \A k, n \in 1..Len(description_files) :
          description_files[k] = description_files[n] => k = n
    /\ description_files # <<>> =>
          { description_files[k] : k \in 1..Len(description_files) } = Discovered
    /\ LoopLeft =>
          /\ file_i = Len(description_files)
          /\ processed_count + failed_count = Cardinality(Discovered)

C17_Witness ==
    /\ main_pc = "done"
    /\ Len(description_files) = 2
    /\ calls[1].result = <<>>
    /\ fs[calls[1].file_path].type = "invalid"
    /\ calls[2].result # <<>>
    /\ processed_count = 1
    /\ failed_count = 1

\* C18: a call of process_description_file that returns nothing has neither
\* created nor changed the video's <id>.descriptions.json.
C18_NoWriteOnFailure ==
    [][ (main_pc = "loop" /\ file_i' = file_i + 1 /\ calls'[Len(calls')].result = <<>>) =>
            LET output_path == ArtifactOf(description_files[file_i + 1])
            IN  /\ output_path \in DOMAIN fs' <=> output_path \in DOMAIN fs
                /\ output_path \in DOMAIN fs => fs'[output_path] = fs[output_path] ]_vars

\* C19: no file named <folder>.description.json is processed as a video's
\* caption file, and no summary has a folder summary among its videos.
C19_NoSummaryInsideSummary ==
    /\ \A k \in 1..Len(calls) :
          calls[k].file_path.name #
              folder_name_of(calls[k].file_path.parent) \o DotDescription \o DotJson
    /\ \A f \in DOMAIN fs :
          fs[f].type = "summary" =>
              \A n \in 1..Len(fs[f].videos) : fs[f].videos[n][2].type # "summary"

\* C20: when a run in which a video was processed has ended, the summary
\* <root>/<root-name>.descriptions.json maps every video processed in the
\* run, wherever under the root it lies, to its merged artifact.
C20_TopLevelHasEveryVideo ==
    (main_pc = "done" /\ processed_count > 0) =>
        LET root == args.input_directory
            top == joinpath(root, folder_name_of(root) \o DotDescriptions \o DotJson)
        IN  /\ top \in DOMAIN fs
            /\ fs[top].type = "summary"
            /\ \A k \in 1..Len(calls) :
                  calls[k].result # <<>> =>
                      \E n \in 1..Len(fs[top].videos) :
                          /\ fs[top].videos[n][1] = VideoId(calls[k].file_path)
                          /\ fs[top].videos[n][2] = fs[calls[k].result[1]]

\* the name a folder has on disk, however the input directory was spelled
\* on the command line
RealName(folder) == (args.cwd \o folder)[Len(args.cwd \o folder)]

\* the merged artifacts of videos that lie directly in a folder
PerVideoArtifacts(folder) ==
    { f \in DOMAIN fs :
        /\ f.parent = folder
        /\ endswith(f.name, DotDescriptions \o DotJson)
        /\ f.name # RealName(folder) \o DotDescriptions \o DotJson
        /\ fs[f].type = "artifact" }

ArtifactId(f) == SubSeq(f.name, 1, Len(f.name) - Len(DotDescriptions \o DotJson))

\* C21: when a run that aggregated has ended, every folder under the root
\* that directly holds a per-video merged artifact has the summary
\* <folder>/<folder-name>.descriptions.json, whose folder field is the
\* folder's name and whose videos are exactly the artifacts directly in the
\* folder, each with its stored content.
C21_LocalSummaryPerFolder ==
    (main_pc = "done" /\ processed_count > 0) =>
        \A folder \in { f.parent : f \in DOMAIN fs } :
            (is_under(folder, args.input_directory) /\ PerVideoArtifacts(folder) # {}) =>
                LET summary == joinpath(folder, RealName(folder) \o DotDescriptions \o DotJson)
                IN  /\ summary \in DOMAIN fs
                    /\ fs[summary].type = "summary"
                    /\ fs[summary].folder = RealName(folder)
                    /\ Len(fs[summary].videos) = Cardinality(PerVideoArtifacts(folder))
                    /\ \A a \in PerVideoArtifacts(folder) :
                          \E n \in 1..Len(fs[summary].videos) :
                              fs[summary].videos[n] = <<ArtifactId(a), fs[a]>>

\* C22: a run started with the command line of the run before, on the tree
\* that run left, ends with every file as that run left it: no per-video
\* artifact, folder summary or top-level summary has changed, and none has
\* appeared or gone.
C22_Idempotent ==
    (main_pc = "done" /\ last_run # <<>> /\ last_run[1].args = args) =>
        absolute(fs, args.cwd) = last_run[1].tree

C22_Witness ==
    /\ main_pc = "done"
    /\ last_run # <<>>
    /\ last_run[1].args = args
    /\ processed_count = 2
    /\ Cardinality({ f \in DOMAIN fs : fs[f].type = "summary" }) = 2
    /\ Cardinality({ f \in DOMAIN fs : fs[f].type = "artifact" }) = 2

\* the threshold is outside [0.0, 1.0], or the input directory is not a
\* directory that is there
InvalidConfiguration ==
    \/ args.threshold < 0
    \/ args.threshold > 100
    \/ args.cwd \o args.input_directory \notin FolderSet

\* C23: started with an invalid configuration, the program ends at once with
\* status 1: it has searched for no caption file, called
\* process_description_file on none, and left every file as it was.
C23_InvalidConfigurationIsFatal ==
    [][ (main_pc = "start" /\ InvalidConfiguration) =>
            /\ main_pc' = "done"
            /\ exit_code' = <<1>>
            /\ fs' = fs
            /\ description_files' = <<>>
            /\ calls' = <<>>
            /\ processed_count' = 0 /\ failed_count' = 0 ]_vars

C23_Witness ==
    /\ main_pc = "done"
    /\ exit_code = <<1>>
    /\ args.threshold = 80
    /\ joinpath(Root, args.input_directory[Len(args.input_directory)]) \in DOMAIN fs
    /\ description_files = <<>>
    /\ calls = <<>>

\* the caption file is a direct timestamp-to-caption object, or an object
\* whose 'videos' member holds exactly one video
RecognizedShape(file_path) ==
    \/ fs[file_path].type = "captions"
    \/ fs[file_path].type = "nested" /\ Len(fs[file_path].nested_videos) = 1

\* C24: a caption file that is not JSON or has neither recognized shape is
\* skipped (nothing returned, no file written, failed_count one more, the
\* loop goes on), and a caption file of a recognized shape whose scene data
\* is there is processed.
C24_ShapeDecidesProcessing ==
    [][ (main_pc = "loop" /\ file_i' = file_i + 1) =>
            LET file_path == description_files[file_i + 1]
                returned == calls'[Len(calls')].result
            IN  /\ ~RecognizedShape(file_path) =>
                      /\ returned = <<>>
                      /\ fs' = fs
                      /\ failed_count' = failed_count + 1
                      /\ processed_count' = processed_count
                      /\ main_pc' \in {"loop", "summary"}
                /\ (RecognizedShape(file_path) /\ SceneLoadable(file_path)) =>
                      /\ returned # <<>>
                      /\ processed_count' = processed_count + 1 ]_vars

\* C26: in the loop grouped_descriptions only grows.  A turn that processed
\* its video adds one entry and leaves the entries before it as they were; a
\* turn that did not leaves the mapping as it was; so the mapping has as
\* many entries as videos have been processed.
C26_TopLevelOnlyGrows ==
    [][ (main_pc = "loop" /\ file_i' = file_i + 1) =>
            /\ IF calls'[Len(calls')].result # <<>>
               THEN /\ Len(grouped_descriptions') = Len(grouped_descriptions) + 1
                    /\ \A k \in 1..Len(grouped_descriptions) :
                          grouped_descriptions'[k] = grouped_descriptions[k]
               ELSE grouped_descriptions' = grouped_descriptions
            /\ Len(grouped_descriptions') = processed_count' ]_vars

\* p comes before q as Python orders Paths: by the first part in which they
\* differ, a part being a folder name or the file name
PathBefore(p, q) ==
    LET a == Append(p.parent, p.name)
        b == Append(q.parent, q.name)
    IN  \/ Len(a) < Len(b) /\ SubSeq(b, 1, Len(a)) = a
        \/ \E j \in 1..Len(a) :
              /\ j <= Len(b)
              /\ SubSeq(a, 1, j - 1) = SubSeq(b, 1, j - 1)
              /\ a[j] # b[j]
              /\ StrLess(a[j], b[j])

MergedFrom(scene) ==
    LET video == <<Root, <<"v">> >>
        files == (caption_path(video) :> caption_file(video, "direct")) @@
                 (scene_path_of(video) :> [type |-> "scene", scene_data |-> scene])
        call == process_description_file(files, caption_path(video), 80)
    IN  call.files[call.result[1]].merged

\* C28: the scene artifact extract_scenes has written has total_scenes =
\* len(scenes) = max(1, number of detected changes), so the merged artifact
\* built from it has scenes-info.total_scenes = len(scenes-info.scenes); and
\* for a video whose duration is <= 0 extract_scenes returns False and no
\* scene artifact is written.
C28_TotalScenesIsCount ==
    /\ scene_json # <<>> =>
          /\ extracted = <<TRUE>>
          /\ scene_json[1].total_scenes = Len(scene_json[1].scenes)
          /\ scene_json[1].total_scenes =
                 IF Len(scene_changes) >= 1 THEN Len(scene_changes) ELSE 1
          /\ LET info == MergedFrom(scene_json[1])["scenes-info"]
             IN  /\ info.total_scenes = Len(info.scenes)
                 /\ info.scenes = scene_json[1].scenes
    /\ (extracted # <<>> /\ video_duration <= 0) =>
          /\ extracted = <<FALSE>>
          /\ scene_json = <<>>

C28_Witness ==
    /\ scene_json # <<>>
    /\ Len(scene_changes) = 2
    /\ scene_json[1].total_scenes = 2
    /\ MergedFrom(scene_json[1])["scenes-info"].total_scenes = 2

(***************************************************************************)
(* descriptor.py: the pipeline (SpecPipeline)                              *)
(*                                                                         *)
(* A step run through run_command starts when subprocess.run is called and *)
(* ends when it returns; step 3 runs in the process itself.  log holds     *)
(* [step, event] for every start, every end ("success" or "failure") and,  *)
(* in step 3, every folder ("folder_success" or "folder_failure").         *)
(***************************************************************************)
MaxFolders == 3     \* folders that hold a video

\* the steps that main runs as commands
CommandSteps == {"frame_extraction", "scene_extraction", "grouping", "cleanup"}

outcome(success) == IF success THEN "success" ELSE "failure"

\* lines 98-107
ValidateDirectory ==
    /\ pipeline_pc = "start"
    /\ IF pipeline_directory = "missing"
       THEN pipeline_pc' = "done" /\ pipeline_exit' = <<1>>
       ELSE IF pipeline_directory # "dir"
       THEN pipeline_pc' = "done" /\ pipeline_exit' = <<1>>
       ELSE pipeline_pc' = "frame_extraction" /\ pipeline_exit' = pipeline_exit
    /\ UNCHANGED <<pipeline_directory, video_folders, running, model_loaded, folder_i,
                   descriptions_success, log>>
    /\ UNCHANGED <<groupVars, codecVars, simVars, orderVars, sceneVars, mainVars, clearVars>>

\* lines 28-35: run_command has called subprocess.run for the step at hand
RunCommand ==
    /\ pipeline_pc \in CommandSteps
    /\ ~running
    /\ running' = TRUE
    /\ log' = Append(log, [step |-> pipeline_pc, event |-> "start"])
    /\ UNCHANGED <<pipeline_directory, video_folders, pipeline_pc, model_loaded, folder_i,
                   descriptions_success, pipeline_exit>>
    /\ UNCHANGED <<groupVars, codecVars, simVars, orderVars, sceneVars, mainVars, clearVars>>

\* lines 114-117: run_command returns for step 1
FrameExtractionReturns ==
    /\ pipeline_pc = "frame_extraction"
    /\ running
    /\ \E success \in BOOLEAN :
          /\ log' = Append(log, [step |-> pipeline_pc, event |-> outcome(success)])
          /\ IF ~success
             THEN pipeline_pc' = "done" /\ pipeline_exit' = <<1>>
             ELSE pipeline_pc' = "scene_extraction" /\ pipeline_exit' = pipeline_exit
    /\ running' = FALSE
    /\ UNCHANGED <<pipeline_directory, video_folders, model_loaded, folder_i,
                   descriptions_success>>
    /\ UNCHANGED <<groupVars, codecVars, simVars, orderVars, sceneVars, mainVars, clearVars>>

\* as SceneExtractionReturns, but a failure stops the pipeline
SceneExtractionReturns_fatal ==
    /\ pipeline_pc = "scene_extraction"
    /\ running
    /\ \E success \in BOOLEAN :
          /\ log' = Append(log, [step |-> pipeline_pc, event |-> outcome(success)])
          /\ IF ~success
             THEN pipeline_pc' = "done" /\ pipeline_exit' = <<1>>
             ELSE pipeline_pc' = "description_generation" /\ pipeline_exit' = pipeline_exit
    /\ running' = FALSE
    /\ UNCHANGED <<pipeline_directory, video_folders, model_loaded, folder_i,
                   descriptions_success>>
    /\ UNCHANGED <<groupVars, codecVars, simVars, orderVars, sceneVars, mainVars, clearVars>>

\* lines 121-123: run_command returns for step 2
SceneExtractionReturns ==
    /\ pipeline_pc = "scene_extraction"
    /\ running
    /\ \E success \in BOOLEAN :
          log' = Append(log, [step |-> pipeline_pc, event |-> outcome(success)])
    /\ pipeline_pc' = "description_generation"
    /\ running' = FALSE
    /\ UNCHANGED <<pipeline_directory, video_folders, model_loaded, folder_i,
                   descriptions_success, pipeline_exit>>
    /\ UNCHANGED <<groupVars, codecVars, simVars, orderVars, sceneVars, mainVars, clearVars>>

\* lines 126-131 and 136: step 3 starts with the search for the video folders
FindVideoFolders ==
    /\ pipeline_pc = "description_generation"
    /\ ~running
    /\ running' = TRUE
    /\ log' = Append(log, [step |-> pipeline_pc, event |-> "start"])
    /\ descriptions_success' = TRUE
    /\ folder_i' = 0
    /\ UNCHANGED <<pipeline_directory, video_folders, pipeline_pc, model_loaded,
                   pipeline_exit>>
    /\ UNCHANGED <<groupVars, codecVars, simVars, orderVars, sceneVars, mainVars, clearVars>>

\* line 134: the model is loaded once; an exception raised by the load is
\* caught nowhere and ends the process with status 1
LoadModelAndPrompt ==
    /\ pipeline_pc = "description_generation"
    /\ running
    /\ video_folders > 0
    /\ ~model_loaded
    /\ \E loaded \in BOOLEAN :
          IF loaded
          THEN /\ model_loaded' = TRUE
               /\ UNCHANGED <<pipeline_pc, running, pipeline_exit, log>>
          ELSE /\ model_loaded' = FALSE
               /\ pipeline_pc' = "done"
               /\ running' = FALSE
               /\ pipeline_exit' = <<1>>
               /\ log' = Append(log, [step |-> pipeline_pc, event |-> "failure"])
    /\ UNCHANGED <<pipeline_directory, video_folders, folder_i, descriptions_success>>
    /\ UNCHANGED <<groupVars, codecVars, simVars, orderVars, sceneVars, mainVars, clearVars>>

\* lines 138-147: one turn of the loop over the video folders
ProcessVideoFrames ==
    /\ pipeline_pc = "description_generation"
    /\ running
    /\ model_loaded
    /\ folder_i < video_folders
    /\ \E success \in BOOLEAN :
          /\ descriptions_success' = IF success THEN descriptions_success ELSE FALSE
          /\ log' = Append(log, [step |-> pipeline_pc,
                                 event |-> IF success THEN "folder_success"
                                           ELSE "folder_failure"])
    /\ folder_i' = folder_i + 1
    /\ UNCHANGED <<pipeline_directory, video_folders, pipeline_pc, running, model_loaded,
                   pipeline_exit>>
    /\ UNCHANGED <<groupVars, codecVars, simVars, orderVars, sceneVars, mainVars, clearVars>>

\* lines 149-151: step 3 is over
DescriptionsChecked ==
    /\ pipeline_pc = "description_generation"
    /\ running
    /\ video_folders = 0 \/ (model_loaded /\ folder_i = video_folders)
    /\ log' = Append(log, [step |-> pipeline_pc, event |-> outcome(descriptions_success)])
    /\ running' = FALSE
    /\ IF ~descriptions_success
       THEN pipeline_pc' = "done" /\ pipeline_exit' = <<1>>
       ELSE pipeline_pc' = "grouping" /\ pipeline_exit' = pipeline_exit
    /\ UNCHANGED <<pipeline_directory, video_folders, model_loaded, folder_i,
                   descriptions_success>>
    /\ UNCHANGED <<groupVars, codecVars, simVars, orderVars, sceneVars, mainVars, clearVars>>

\* lines 155-158: run_command returns for step 4
GroupingReturns ==
    /\ pipeline_pc = "grouping"
    /\ running
    /\ \E success \in BOOLEAN :
          /\ log' = Append(log, [step |-> pipeline_pc, event |-> outcome(success)])
          /\ IF ~success
             THEN pipeline_pc' = "done" /\ pipeline_exit' = <<1>>
             ELSE pipeline_pc' = "cleanup" /\ pipeline_exit' = pipeline_exit
    /\ running' = FALSE
    /\ UNCHANGED <<pipeline_directory, video_folders, model_loaded, folder_i,
                   descriptions_success>>
    /\ UNCHANGED <<groupVars, codecVars, simVars, orderVars, sceneVars, mainVars, clearVars>>

\* lines 164-171: run_command returns for step 5, and main returns
CleanupReturns ==
    /\ pipeline_pc = "cleanup"
    /\ running
    /\ \E success \in BOOLEAN :
          log' = Append(log, [step |-> pipeline_pc, event |-> outcome(success)])
    /\ pipeline_pc' = "done"
    /\ pipeline_exit' = <<0>>
    /\ running' = FALSE
    /\ UNCHANGED <<pipeline_directory, video_folders, model_loaded, folder_i,
                   descriptions_success>>
    /\ UNCHANGED <<groupVars, codecVars, simVars, orderVars, sceneVars, mainVars, clearVars>>

InitPipeline ==
    /\ pipeline_directory \in {"dir", "file", "missing"}
    /\ video_folders \in 0..MaxFolders
    /\ pipeline_pc = "start"
    /\ running = FALSE
    /\ model_loaded = FALSE
    /\ folder_i = 0
    /\ descriptions_success = FALSE
    /\ pipeline_exit = <<>>
    /\ log = <<>>
    /\ GroupIdle /\ CodecIdle /\ SimIdle /\ OrderIdle /\ SceneIdle /\ MainIdle /\ ClearIdle

NextPipeline ==
    \/ ValidateDirectory
    \/ RunCommand
    \/ FrameExtractionReturns
    \/ SceneExtractionReturns
    \/ FindVideoFolders
    \/ LoadModelAndPrompt
    \/ ProcessVideoFrames
    \/ DescriptionsChecked
    \/ GroupingReturns
    \/ CleanupReturns

SpecPipeline == InitPipeline /\ [][NextPipeline]_vars

\* the order of the docstring
StepOrder ==
    <<"frame_extraction", "scene_extraction", "description_generation", "grouping", "cleanup">>

IsStart(e) == e.event = "start"

Started(step) == \E k \in 1..Len(log) : log[k] = [step |-> step, event |-> "start"]

Ended(step, event) == \E k \in 1..Len(log) : log[k] = [step |-> step, event |-> event]

\* C29: the steps start in the order frame extraction, scene extraction,
\* description generation, grouping, cleanup, each at most once, and a step
\* has ended before the next one starts.  Grouping has started only after
\* frame extraction ended in success and description generation ended in
\* success with no folder failed and every video folder done; cleanup has
\* started only after grouping ended in success; and the pipeline never ends
\* on the end of scene extraction.
C29_PipelineOrder ==
    /\ LET starts == SelectSeq(log, IsStart)
       IN  /\ Len(starts) <= Len(StepOrder)
           /\ \A k \in 1..Len(starts) : starts[k].step = StepOrder[k]
    /\ \A p, q \in 1..Len(log) :
          (p < q /\ IsStart(log[p]) /\ IsStart(log[q])) =>
              \E r \in (p + 1)..(q - 1) :
                  /\ log[r].step = log[p].step
                  /\ log[r].event \in {"success", "failure"}
    /\ Started("grouping") =>
          /\ Ended("frame_extraction", "success")
          /\ Ended("description_generation", "success")
          /\ ~Ended("description_generation", "folder_failure")
          /\ Cardinality({ k \in 1..Len(log) : log[k].event = "folder_success" })
                 = video_folders
    /\ Started("cleanup") => Ended("grouping", "success")
    /\ (pipeline_exit # <<>> /\ log # <<>>) => log[Len(log)].step # "scene_extraction"
    /\ Ended("scene_extraction", "failure") =>
          \/ pipeline_pc = "description_generation"
          \/ Started("description_generation")

C29_Witness ==
    /\ pipeline_exit = <<0>>
    /\ video_folders = 2
    /\ Ended("scene_extraction", "failure")
    /\ Ended("cleanup", "success")
    /\ Len(log) = 12

(***************************************************************************)
(* clear-files.py (SpecClear)                                              *)
(*                                                                         *)
(* The files are Paths from the working directory, which holds the folder  *)
(* c.  A directory is there when a file lies in it or below it; c is       *)
(* always there.                                                           *)
(***************************************************************************)
FRAMES       == <<"f", "r", "a", "m", "e", "s">>
DESCRIPTION  == Tail(DotDescription)
DESCRIPTIONS == Tail(DotDescriptions)
SCENES       == Tail(DotScene) \o <<"s">>
PURGE        == <<"p", "u", "r", "g", "e">>

\* line 149
FunctionNames == {FRAMES, DESCRIPTION, DESCRIPTIONS, SCENES, PURGE}

\* str.lower() on the letters a response is made of
lower(s) ==
    [k \in 1..Len(s) |->
        CASE s[k] = "Y" -> "y"
          [] s[k] = "E" -> "e"
          [] s[k] = "S" -> "s"
          [] s[k] = "N" -> "n"
          [] s[k] = "O" -> "o"
          [] OTHER -> s[k]]

\* the directories of a set of files: every folder on the way to a file
dirs_of(files) ==
    UNION { { SubSeq(f.parent, 1, k) : k \in 0..Len(f.parent) } : f \in files }

\* Path(target).resolve(), from the working directory
resolve(path_str) == IF path_str = <<".">> THEN <<>> ELSE split(path_str, "/")

root_exists(files, path) == path = <<>> \/ path = Root \/ path \in dirs_of(files)

\* os.walk(root_path): every directory that has a subdirectory named frames
find_frames_directories(files, root) ==
    { d \in dirs_of(files) :
        /\ is_under(d, root)
        /\ Len(d) > Len(root)
        /\ d[Len(d)] = FRAMES }

\* root_path.rglob("*" + suffix)
rglob(files, root, suffix) ==
    { f \in files : is_under(f.parent, root) /\ endswith(f.name, suffix) }

\* shutil.rmtree of each directory
delete_frames_directories(files, frames_dirs) ==
    { f \in files : ~\E d \in frames_dirs : is_under(f.parent, d) }

\* unlink of each file that is still there
delete_files(files, file_list) == files \ file_list

\* the files a run may find: in c a video's caption file, merged artifact,
\* scene file, a frame and a merged artifact inside c/frames, and in the
\* working directory a caption file and a merged artifact
ClearFileSet ==
    { joinpath(Root, <<"v">> \o DotDescription \o DotJson),
      joinpath(Root, <<"v">> \o DotDescriptions \o DotJson),
      joinpath(Root, <<"v">> \o DotScene \o DotJson),
      joinpath(Root \o <<FRAMES>>, <<"v", ".", "p", "n", "g">>),
      joinpath(Root \o <<FRAMES>>, <<"v">> \o DotDescriptions \o DotJson),
      joinpath(<<>>, <<"v">> \o DotDescription \o DotJson),
      joinpath(<<>>, <<"v">> \o DotDescriptions \o DotJson) }

\* args.target: nothing, a function name, the folder c, or a name that is
\* not there
TargetSet ==
    {<<>>} \cup { <<name>> : name \in FunctionNames } \cup { << <<"c">> >>, << <<"n">> >> }

\* what the user may type at the prompt of line 119
ResponseSet ==
    { <<"y", "e", "s">>, <<"y">>, <<" ", "Y", "e", "s", " ">>, <<"n", "o">>, <<>>,
      <<"y", "e", "s", "s">> }

\* lines 145-170
ParseTarget ==
    /\ clear_pc = "start"
    /\ LET parsed == IF target = <<>> THEN [function |-> <<>>, root_path |-> resolve(<<".">>)]
                     ELSE IF target[1] \in FunctionNames
                     THEN [function |-> target, root_path |-> resolve(<<".">>)]
                     ELSE [function |-> <<>>, root_path |-> resolve(target[1])]
       IN  /\ function' = parsed.function
           /\ root_path' = parsed.root_path
           /\ IF ~root_exists(clear_tree, parsed.root_path)
              THEN clear_pc' = "done" /\ clear_exit' = <<1>>
              ELSE /\ clear_pc' = IF parsed.function = <<PURGE>> THEN "confirm" ELSE "frames"
                   /\ clear_exit' = clear_exit
    /\ UNCHANGED <<clear_tree, target, response>>
    /\ UNCHANGED <<groupVars, codecVars, simVars, orderVars, sceneVars, mainVars, pipeVars>>

\* lines 109-120 and 167-170
ConfirmPurgeOperation ==
    /\ clear_pc = "confirm"
    /\ \E typed \in ResponseSet :
          /\ response' = <<typed>>
          /\ IF lower(strip(typed, {" "})) \in { <<"y", "e", "s">>, <<"y">> }
             THEN clear_pc' = "purge" /\ clear_exit' = clear_exit
             ELSE clear_pc' = "done" /\ clear_exit' = <<0>>
    /\ UNCHANGED <<clear_tree, target, function, root_path>>
    /\ UNCHANGED <<groupVars, codecVars, simVars, orderVars, sceneVars, mainVars, pipeVars>>

\* lines 172-220: everything is searched for first, then deleted
Purge ==
    /\ clear_pc = "purge"
    /\ LET frames_dirs == find_frames_directories(clear_tree, root_path)
           description_files_found == rglob(clear_tree, root_path, DotDescription \o DotJson)
           descriptions_files == rglob(clear_tree, root_path, DotDescriptions \o DotJson)
           scene_files == rglob(clear_tree, root_path, DotScene \o DotJson)
       IN  clear_tree' =
               delete_files(
                   delete_files(
                       delete_files(delete_frames_directories(clear_tree, frames_dirs),
                                    description_files_found),
                       descriptions_files),
                   scene_files)
    /\ clear_pc' = "done"
    /\ clear_exit' = <<0>>
    /\ UNCHANGED <<target, function, root_path, response>>
    /\ UNCHANGED <<groupVars, codecVars, simVars, orderVars, sceneVars, mainVars, pipeVars>>

\* lines 228 and 233-242
DeleteFrames ==
    /\ clear_pc = "frames"
    /\ clear_tree' =
           IF function = <<FRAMES>> \/ function = <<>>
           THEN delete_frames_directories(clear_tree,
                                          find_frames_directories(clear_tree, root_path))
           ELSE clear_tree
    /\ clear_pc' = "description"
    /\ UNCHANGED <<target, function, root_path, response, clear_exit>>
    /\ UNCHANGED <<groupVars, codecVars, simVars, orderVars, sceneVars, mainVars, pipeVars>>

\* lines 229 and 244-253
DeleteDescription ==
    /\ clear_pc = "description"
    /\ clear_tree' =
           IF function = <<DESCRIPTION>> \/ function = <<>>
           THEN delete_files(clear_tree, rglob(clear_tree, root_path, DotDescription \o DotJson))
           ELSE clear_tree
    /\ clear_pc' = "descriptions"
    /\ UNCHANGED <<target, function, root_path, response, clear_exit>>
    /\ UNCHANGED <<groupVars, codecVars, simVars, orderVars, sceneVars, mainVars, pipeVars>>

\* lines 230 and 255-264
DeleteDescriptionsOnly ==
    /\ clear_pc = "descriptions"
    /\ clear_tree' =
           IF function = <<DESCRIPTIONS>>
           THEN delete_files(clear_tree, rglob(clear_tree, root_path, DotDescriptions \o DotJson))
           ELSE clear_tree
    /\ clear_pc' = "scenes"
    /\ UNCHANGED <<target, function, root_path, response, clear_exit>>
    /\ UNCHANGED <<groupVars, codecVars, simVars, orderVars, sceneVars, mainVars, pipeVars>>

\* lines 231 and 266-298, and the return of main
DeleteScenes ==
    /\ clear_pc = "scenes"
    /\ clear_tree' =
           IF function = <<SCENES>> \/ function = <<>>
           THEN delete_files(clear_tree, rglob(clear_tree, root_path, DotScene \o DotJson))
           ELSE clear_tree
    /\ clear_pc' = "done"
    /\ clear_exit' = <<0>>
    /\ UNCHANGED <<target, function, root_path, response>>
    /\ UNCHANGED <<groupVars, codecVars, simVars, orderVars, sceneVars, mainVars, pipeVars>>

InitClear ==
    /\ clear_tree \in SUBSET ClearFileSet
    /\ target \in TargetSet
    /\ function = <<>>
    /\ root_path = <<>>
    /\ clear_pc = "start"
    /\ response = <<>>
    /\ clear_exit = <<>>
    /\ GroupIdle /\ CodecIdle /\ SimIdle /\ OrderIdle /\ SceneIdle /\ MainIdle /\ PipeIdle

NextClear ==
    \/ ParseTarget
    \/ ConfirmPurgeOperation
    \/ Purge
    \/ DeleteFrames
    \/ DeleteDescription
    \/ DeleteDescriptionsOnly
    \/ DeleteScenes

SpecClear == InitClear /\ [][NextClear]_vars

\* the *.descriptions.json among files
DescriptionsFiles(files) == { f \in files : endswith(f.name, DotDescriptions \o DotJson) }

\* C30: in default mode (no target, or a directory as target) a step deletes
\* only files under the root that lie in a 'frames' directory or are named
\* *.description.json or *.scene.json, and no *.descriptions.json; and a
\* *.descriptions.json is deleted only under the function 'descriptions' or
\* under 'purge' after the answer yes or y.
C30_DefaultKeepsDescriptions ==
    [][ /\ (target = <<>> \/ target[1] \notin FunctionNames) =>
              /\ DescriptionsFiles(clear_tree) \subseteq clear_tree'
              /\ \A f \in clear_tree \ clear_tree' :
                    /\ is_under(f.parent, root_path)
                    /\ \/ \E k \in 1..Len(f.parent) : f.parent[k] = FRAMES
                       \/ endswith(f.name, DotDescription \o DotJson)
                       \/ endswith(f.name, DotScene \o DotJson)
        /\ ~(DescriptionsFiles(clear_tree) \subseteq clear_tree') =>
              \/ target = <<DESCRIPTIONS>>
              \/ /\ target = <<PURGE>>
                 /\ response # <<>>
                 /\ lower(strip(response[1], {" "})) \in { <<"y", "e", "s">>, <<"y">> } ]_vars

====
